---- MODULE Spec2Model ----
(***************************************************************************)
(* Model of the fmri-prep orchestration subsystem.                         *)
(*                                                                         *)
(*   Spec     the orchestrator process (src/src/orchestrator.py): a pool   *)
(*            of worker threads running process_single_task, the shared    *)
(*            ProgressTracker, the dataset-descriptor event and file, the  *)
(*            report lists and the main thread collecting the futures.     *)
(*   SpecGui  the GUI front end (src/gui_app.py) reading the stdout of the *)
(*            pipeline subprocess (src/scripts/run_pipeline.py), with the  *)
(*            stop request and its background cleanup.                     *)
(***************************************************************************)
EXTENDS Integers, Sequences, FiniteSets, TLC

\* ---------------------------------------------------------------- bounds
MaxTasks == 2
MaxSubjects == 2
MaxParallel == 2

VARIABLES
    \* ---- orchestrator (src/src/orchestrator.py) ----
    skip_bids,            \* args.skip_bids
    skip_fmriprep,        \* args.skip_fmriprep
    parallel,             \* args.parallel
    num_workers,          \* min(args.parallel, total_tasks)
    all_tasks,            \* sequence of sub_id, in task_num order
    pc,                   \* position of each task inside process_single_task
    count,                \* the local `count` of ProgressTracker.increment
    completed,            \* ProgressTracker.completed
    out,                  \* progress markers on stdout, in emission order
    desc_created_event,   \* threading.Event
    desc_file,            \* dataset_description.json exists on disk
    desc_writers,         \* tasks whose create_dataset_description wrote it
    successful,           \* report.successful (tasks)
    failed,               \* report.failed (<<task, stage>>)
    prep_calls,           \* fMRIPrep invocations, as <<task, sub_id>>
    ret,                  \* outcome of each future
    collected,            \* futures consumed by main's as_completed loop
    errors,               \* main's errors list (tasks)
    main_pc,              \* position of main()
    report_file,          \* conversion_report.txt exists in the output folder
    exit_code,            \* status of sys.exit (-1 while main is running)
    \* ---- GUI (src/gui_app.py) and its pipeline subprocess ----
    IS_WINDOWS,              \* platform.system() == 'Windows'
    is_running,              \* App.is_running
    stop_requested,          \* App.stop_requested
    current_process,         \* App.current_process (0 is None, else a run)
    current_output_folder,   \* App.current_output_folder (0 is None)
    buttons,                 \* state of the action buttons
    btn_stop,                \* state of the stop button
    dialog_open,             \* the "Confirm Stop" dialog is showing
    stop_declined,           \* a "Confirm Stop" dialog of this run was answered No
    label_status,            \* what label_status says
    after_queue,             \* callbacks queued with self.after(0, ...)
    gui_total_tasks,         \* App.total_tasks
    completed_tasks,         \* App.completed_tasks
    run_no,                  \* runs started so far
    reader,                  \* the run_subprocess thread
    pipeline,                \* the pipeline subprocess of each run
    cleanup,                 \* the cleanup_background thread of each run
    disk,                    \* runs whose output folder exists on disk
    \* ---- main, "Build task list" (src/src/orchestrator.py 380-443) ----
    input_root,              \* the subject folders as root.iterdir() lists them
    scan_pos,                \* position of the loop over the subject folders
    sessions,                \* find_sessions(sub_dir) of the last folder scanned
    tasks,                   \* the tasks list
    subjects_tasks,          \* the OrderedDict grouping the tasks by subject
    build_pc,                \* position of the build phase
    args,                    \* the command line: args.subject, args.session
    \* ---- _organize_to_bids (src/src/bids/converter.py 126-202) ----
    json_seen,               \* sidecars the loop has gone through
    run_counters,            \* run_counters: task key -> runs numbered so far
    organized,               \* the scans copied under their BIDS names, in order
    skipped_count,           \* skipped_count
    conv_pc,                 \* position of _organize_to_bids
    \* ---- ConversionReport (src/src/reporting/report.py) ----
    report_lock,             \* self._lock: 0 when free, else the thread holding it
    call,                    \* the add_ call each thread is in
    report_successful,       \* self.successful
    report_failed,           \* self.failed
    report_skipped,          \* self.skipped
    report_warnings,         \* self.warnings
    report_text,             \* what generate_report returned
    \* ---- the pipeline process as App reads it (orchestrator.py, core/progress.py) ----
    proc_total,              \* total_tasks of the started pipeline
    proc_workers,            \* num_workers of its thread pool
    proc_pc,                 \* position of main(): "off" | "start" | "pool" | "complete"
    worker,                  \* position of each task's worker thread
    tracker,                 \* ProgressTracker.completed
    held,                    \* the local `count` each increment() call holds
    stdout,                  \* the marker lines written to the pipe, in order
    \* ---- App progress bar (src/src/gui/app.py 839-923) ----
    read_pos,                \* lines of stdout the reader loop has handled
    app_total_tasks,         \* self.total_tasks
    app_completed_tasks,     \* self.completed_tasks
    current_progress,        \* self.current_progress, in 1/Unit
    target_progress,         \* self.target_progress, in 1/Unit
    task_in_progress,        \* self.task_in_progress
    progress_animation_id,   \* self.progress_animation_id: a tick is scheduled
    progress_bar,            \* the value last given to progress_bar.set, in 1/Unit
    after_sets,              \* progress_bar.set calls queued with after(0, ...)
    \* ---- App start paths (src/src/gui/app.py 519-769, 937-945) ----
    app_buttons,             \* state given to _set_buttons_state
    app_is_running,          \* self.is_running
    _run_bids,               \* self._run_bids
    _run_fmriprep,           \* self._run_fmriprep
    _fmriprep_only_mode,     \* self._fmriprep_only_mode
    _bids_folder_for_fmriprep, \* self._bids_folder_for_fmriprep
    preflight_thread,        \* the preflight_thread of _run_with_docker_preflight
    after_start,             \* after(100, _start_pipeline_internal) is pending
    subprocess_thread,       \* the run_subprocess thread and its bids_folder argument
    cmd,                     \* the command line given to subprocess.Popen
    reset_pending,           \* after(0, self._reset_ui) is pending
    clicked,                 \* the action button pressed last
    clicks,                  \* action button presses so far
    \* ---- main() with --bids-folder (src/src/orchestrator.py 268-295, 469-503) ----
    fo_args,                 \* args of a --bids-folder run: keep_temp, skip_bids, skip_fmriprep
    existing_files,          \* what the BIDS folder held before the run
    bids_dir_files,          \* what the BIDS folder holds now
    conversion_invoked,      \* run_bids_conversion has been called
    fo_pc                    \* position of main() and the tasks still to process

gui_vars == <<IS_WINDOWS, is_running, stop_requested, current_process,
              current_output_folder, buttons, btn_stop, dialog_open, stop_declined,
              label_status, after_queue, gui_total_tasks, completed_tasks,
              run_no, reader,
              pipeline, cleanup, disk>>

conv_vars == <<json_seen, run_counters, organized, skipped_count, conv_pc>>

report_vars == <<report_lock, call, report_successful, report_failed, report_skipped,
                 report_warnings, report_text>>

prog_vars == <<proc_total, proc_workers, proc_pc, worker, tracker, held, stdout,
               read_pos, app_total_tasks, app_completed_tasks, current_progress,
               target_progress, task_in_progress, progress_animation_id,
               progress_bar, after_sets>>

start_vars == <<app_buttons, app_is_running, _run_bids, _run_fmriprep,
                _fmriprep_only_mode, _bids_folder_for_fmriprep, preflight_thread,
                after_start, subprocess_thread, cmd, reset_pending, clicked, clicks>>

fo_vars == <<fo_args, existing_files, bids_dir_files, conversion_invoked, fo_pc>>

lib_vars == <<conv_vars, report_vars, prog_vars, start_vars, fo_vars>>

build_vars == <<input_root, scan_pos, sessions, tasks, subjects_tasks, build_pc, args>>

orch_vars == <<skip_bids, skip_fmriprep, parallel, num_workers, all_tasks,
               report_file, exit_code, pc, count,
               completed, out, desc_created_event, desc_file, desc_writers,
               successful, failed, prep_calls, ret, collected, errors, main_pc>>

vars == <<skip_bids, skip_fmriprep, parallel, num_workers, all_tasks,
          report_file, exit_code, pc, count,
          completed, out, desc_created_event, desc_file, desc_writers,
          successful, failed, prep_calls, ret, collected, errors, main_pc,
          IS_WINDOWS, is_running, stop_requested, current_process,
          current_output_folder, buttons, btn_stop, dialog_open, stop_declined,
              label_status, after_queue, gui_total_tasks, completed_tasks,
              run_no, reader,
          pipeline, cleanup, disk,
          input_root, scan_pos, sessions, tasks, subjects_tasks, build_pc, args,
          json_seen, run_counters, organized, skipped_count, conv_pc,
          report_lock, call, report_successful, report_failed, report_skipped,
          report_warnings, report_text,
          proc_total, proc_workers, proc_pc, worker, tracker, held, stdout,
          read_pos, app_total_tasks, app_completed_tasks, current_progress,
          target_progress, task_in_progress, progress_animation_id,
          progress_bar, after_sets,
          app_buttons, app_is_running, _run_bids, _run_fmriprep,
          _fmriprep_only_mode, _bids_folder_for_fmriprep, preflight_thread,
          after_start, subprocess_thread, cmd, reset_pending, clicked, clicks,
          fo_args, existing_files, bids_dir_files, conversion_invoked, fo_pc>>

\* ------------------------------------------------------------- task list

Min(a, b) == IF a < b THEN a ELSE b

total_tasks == Len(all_tasks)

Tasks == 1..total_tasks

\* task_num is 0-indexed in the code: task t of the model carries t - 1
task_num(t) == t - 1

sub_id(t) == all_tasks[t]

\* Tasks are grouped by subject before numbering (OrderedDict of lists), so
\* the sub_ids of the flat list are contiguous and first-seen ordered.
GroupedBySubject(s) ==
    /\ Len(s) > 0 => s[1] = 1
    /\ \A i \in 1..(Len(s) - 1) : s[i + 1] \in {s[i], s[i] + 1}

TaskLists ==
    UNION { { s \in [1..n -> 1..MaxSubjects] : GroupedBySubject(s) } : n \in 0..MaxTasks }

\* ------------------------------------------------------------------ Init

InitOrch ==
    /\ skip_bids \in BOOLEAN
    /\ skip_fmriprep \in BOOLEAN
    /\ all_tasks \in TaskLists
    /\ parallel \in 1..MaxParallel
    /\ num_workers = Min(parallel, Len(all_tasks))
    /\ pc = [t \in 1..Len(all_tasks) |-> "pending"]
    /\ count = [t \in 1..Len(all_tasks) |-> 0]
    /\ completed = 0
    /\ out = << >>
    /\ desc_created_event = FALSE
    /\ desc_file = FALSE
    /\ desc_writers = {}
    /\ successful = {}
    /\ failed = {}
    /\ prep_calls = {}
    /\ ret = [t \in 1..Len(all_tasks) |-> "none"]
    /\ collected = {}
    /\ errors = {}
    /\ main_pc \in IF all_tasks = << >> THEN {"bad_args", "no_tasks"} ELSE {"pool"}
    /\ report_file = FALSE
    /\ exit_code = -1


\* --------------------------------------------------- process_single_task

InFlight == { t \in Tasks : pc[t] \notin {"pending", "done"} }

\* Where a task goes once its conversion block is over (or skipped).
AfterBids == IF skip_fmriprep THEN "done" ELSE "prep"

RetAfterBids(t) == IF skip_fmriprep THEN [ret EXCEPT ![t] = "ok"] ELSE ret

\* TaskStart with a pool that has no max_workers limit.
TaskStartNoLimit(t) ==
    /\ main_pc = "pool"
    /\ pc[t] = "pending"
    /\ \A u \in Tasks : u < t => pc[u] # "pending"
    /\ out' = Append(out, <<"TASK_START", task_num(t)>>)
    /\ pc' = [pc EXCEPT ![t] = IF skip_bids THEN AfterBids ELSE "conv"]
    /\ ret' = IF skip_bids THEN RetAfterBids(t) ELSE ret
    /\ UNCHANGED <<skip_bids, skip_fmriprep, parallel, num_workers, all_tasks,
                   report_file, exit_code, count,
                   completed, desc_created_event, desc_file, desc_writers,
                   successful, failed, prep_calls, collected, errors, main_pc>>
    /\ UNCHANGED <<gui_vars, build_vars, lib_vars>>

\* A free worker takes the oldest queued task; the task prints its start
\* line and progress_tracker.task_start(task_num).
TaskStart(t) ==
    /\ main_pc = "pool"
    /\ pc[t] = "pending"
    /\ \A u \in Tasks : u < t => pc[u] # "pending"
    /\ Cardinality(InFlight) < num_workers
    /\ out' = Append(out, <<"TASK_START", task_num(t)>>)
    /\ pc' = [pc EXCEPT ![t] = IF skip_bids THEN AfterBids ELSE "conv"]
    /\ ret' = IF skip_bids THEN RetAfterBids(t) ELSE ret
    /\ UNCHANGED <<skip_bids, skip_fmriprep, parallel, num_workers, all_tasks,
                   report_file, exit_code, count,
                   completed, desc_created_event, desc_file, desc_writers,
                   successful, failed, prep_calls, collected, errors, main_pc>>
    /\ UNCHANGED <<gui_vars, build_vars, lib_vars>>

\* run_bids_conversion returns (True, ..) / (False, ..), or raises before its
\* try block (temp_dir.mkdir) and the exception leaves process_single_task.
ConvOutcomes == {"success", "failure", "raise"}

BidsConversion(t) ==
    /\ pc[t] = "conv"
    /\ \E o \in ConvOutcomes :
         \/ /\ o = "success"
            /\ successful' = successful \cup {t}
            /\ pc' = [pc EXCEPT ![t] = "desc_is_set"]
            /\ UNCHANGED <<failed, ret>>
         \/ /\ o = "failure"
            /\ failed' = failed \cup {<<t, "BIDS Conversion">>}
            /\ pc' = [pc EXCEPT ![t] = "fail_inc"]
            /\ UNCHANGED <<successful, ret>>
         \/ /\ o = "raise"
            /\ pc' = [pc EXCEPT ![t] = "done"]
            /\ ret' = [ret EXCEPT ![t] = "raised"]
            /\ UNCHANGED <<successful, failed>>
    /\ UNCHANGED <<skip_bids, skip_fmriprep, parallel, num_workers, all_tasks,
                   report_file, exit_code, count,
                   completed, out, desc_created_event, desc_file, desc_writers,
                   prep_calls, collected, errors, main_pc>>
    /\ UNCHANGED <<gui_vars, build_vars, lib_vars>>

\* if not desc_created_event.is_set():
DescIsSet(t) ==
    /\ pc[t] = "desc_is_set"
    /\ pc' = [pc EXCEPT ![t] = IF desc_created_event THEN "inc" ELSE "desc_exists"]
    /\ UNCHANGED <<skip_bids, skip_fmriprep, parallel, num_workers, all_tasks,
                   report_file, exit_code, count,
                   completed, out, desc_created_event, desc_file, desc_writers,
                   successful, failed, prep_calls, ret, collected, errors,
                   main_pc>>
    /\ UNCHANGED <<gui_vars, build_vars, lib_vars>>

\* create_dataset_description: if desc_path.exists(): return False
DescExists(t) ==
    /\ pc[t] = "desc_exists"
    /\ pc' = [pc EXCEPT ![t] = IF desc_file THEN "inc" ELSE "desc_write"]
    /\ UNCHANGED <<skip_bids, skip_fmriprep, parallel, num_workers, all_tasks,
                   report_file, exit_code, count,
                   completed, out, desc_created_event, desc_file, desc_writers,
                   successful, failed, prep_calls, ret, collected, errors,
                   main_pc>>
    /\ UNCHANGED <<gui_vars, build_vars, lib_vars>>

\* create_dataset_description: open(desc_path, 'w') and json.dump; True when
\* written, False when the write raised (except Exception: return False).
DescWrite(t) ==
    /\ pc[t] = "desc_write"
    /\ \E written \in BOOLEAN :
         IF written
         THEN /\ desc_file' = TRUE
              /\ desc_writers' = desc_writers \cup {t}
              /\ pc' = [pc EXCEPT ![t] = "desc_set"]
         ELSE /\ pc' = [pc EXCEPT ![t] = "inc"]
              /\ UNCHANGED <<desc_file, desc_writers>>
    /\ UNCHANGED <<skip_bids, skip_fmriprep, parallel, num_workers, all_tasks,
                   report_file, exit_code, count,
                   completed, out, desc_created_event, successful, failed,
                   prep_calls, ret, collected, errors, main_pc>>
    /\ UNCHANGED <<gui_vars, build_vars, lib_vars>>

\* desc_created_event.set()
DescSet(t) ==
    /\ pc[t] = "desc_set"
    /\ desc_created_event' = TRUE
    /\ pc' = [pc EXCEPT ![t] = "inc"]
    /\ UNCHANGED <<skip_bids, skip_fmriprep, parallel, num_workers, all_tasks,
                   report_file, exit_code, count,
                   completed, out, desc_file, desc_writers, successful, failed,
                   prep_calls, ret, collected, errors, main_pc>>
    /\ UNCHANGED <<gui_vars, build_vars, lib_vars>>

\* ProgressTracker.increment, the part under self._lock:
\*     self.completed += 1 ; count = self.completed
LockedIncrement(t) ==
    /\ completed' = completed + 1
    /\ count' = [count EXCEPT ![t] = completed + 1]

Increment(t) ==
    /\ pc[t] \in {"inc", "fail_inc"}
    /\ LockedIncrement(t)
    /\ pc' = [pc EXCEPT ![t] = IF pc[t] = "inc" THEN "pub" ELSE "fail_pub"]
    /\ UNCHANGED <<skip_bids, skip_fmriprep, parallel, num_workers, all_tasks,
                   report_file, exit_code, out,
                   desc_created_event, desc_file, desc_writers, successful,
                   failed, prep_calls, ret, collected, errors, main_pc>>
    /\ UNCHANGED <<gui_vars, build_vars, lib_vars>>

\* Publish with the `return` of the failure path (orchestrator.py line 110)
\* dropped: the failed task falls through to the increment of line 112.
PublishNoReturn(t) ==
    /\ pc[t] \in {"pub", "fail_pub"}
    /\ out' = Append(out, <<"TASK", count[t]>>)
    /\ IF pc[t] = "pub"
       THEN /\ pc' = [pc EXCEPT ![t] = AfterBids]
            /\ ret' = RetAfterBids(t)
       ELSE /\ pc' = [pc EXCEPT ![t] = "inc"]
            /\ ret' = ret
    /\ UNCHANGED <<skip_bids, skip_fmriprep, parallel, num_workers, all_tasks,
                   report_file, exit_code, count,
                   completed, desc_created_event, desc_file, desc_writers,
                   successful, failed, prep_calls, collected, errors, main_pc>>
    /\ UNCHANGED <<gui_vars, build_vars, lib_vars>>

\* Publish with the failure path's `return` replaced by a fall-through to
\* the fMRIPrep block (line 115).
PublishFailureRunsPrep(t) ==
    /\ pc[t] \in {"pub", "fail_pub"}
    /\ out' = Append(out, <<"TASK", count[t]>>)
    /\ pc' = [pc EXCEPT ![t] = AfterBids]
    /\ ret' = IF pc[t] = "fail_pub" /\ skip_fmriprep
              THEN [ret EXCEPT ![t] = "error"]
              ELSE RetAfterBids(t)
    /\ UNCHANGED <<skip_bids, skip_fmriprep, parallel, num_workers, all_tasks,
                   report_file, exit_code, count,
                   completed, desc_created_event, desc_file, desc_writers,
                   successful, failed, prep_calls, collected, errors, main_pc>>
    /\ UNCHANGED <<gui_vars, build_vars, lib_vars>>

\* ProgressTracker.increment, after the lock is released:
\*     safe_print(f"[PROGRESS:TASK:{count}]")
\* On the failure path the task then returns its error string.
Publish(t) ==
    /\ pc[t] \in {"pub", "fail_pub"}
    /\ out' = Append(out, <<"TASK", count[t]>>)
    /\ IF pc[t] = "pub"
       THEN /\ pc' = [pc EXCEPT ![t] = AfterBids]
            /\ ret' = RetAfterBids(t)
       ELSE /\ pc' = [pc EXCEPT ![t] = "done"]
            /\ ret' = [ret EXCEPT ![t] = "error"]
    /\ UNCHANGED <<skip_bids, skip_fmriprep, parallel, num_workers, all_tasks,
                   report_file, exit_code, count,
                   completed, desc_created_event, desc_file, desc_writers,
                   successful, failed, prep_calls, collected, errors, main_pc>>
    /\ UNCHANGED <<gui_vars, build_vars, lib_vars>>

\* subprocess.run(cmd_fmriprep, ...) is entered: the runner is given sub_id.
FmriprepStart(t) ==
    /\ pc[t] = "prep"
    /\ prep_calls' = prep_calls \cup {<<t, sub_id(t)>>}
    /\ pc' = [pc EXCEPT ![t] = "prepping"]
    /\ UNCHANGED <<skip_bids, skip_fmriprep, parallel, num_workers, all_tasks,
                   report_file, exit_code, count,
                   completed, out, desc_created_event, desc_file, desc_writers,
                   successful, failed, ret, collected, errors, main_pc>>
    /\ UNCHANGED <<gui_vars, build_vars, lib_vars>>

\* subprocess.run returns: returncode 0, or a failure (returncode != 0 or an
\* exception, both recorded with stage "fMRIPrep"); the task returns error.
FmriprepEnd(t) ==
    /\ pc[t] = "prepping"
    /\ \E ok \in BOOLEAN :
         IF ok
         THEN /\ ret' = [ret EXCEPT ![t] = "ok"]
              /\ UNCHANGED failed
         ELSE /\ ret' = [ret EXCEPT ![t] = "error"]
              /\ failed' = failed \cup {<<t, "fMRIPrep">>}
    /\ pc' = [pc EXCEPT ![t] = "done"]
    /\ UNCHANGED <<skip_bids, skip_fmriprep, parallel, num_workers, all_tasks,
                   report_file, exit_code, count,
                   completed, out, desc_created_event, desc_file, desc_writers,
                   successful, prep_calls, collected, errors, main_pc>>
    /\ UNCHANGED <<gui_vars, build_vars, lib_vars>>

\* ------------------------------------------------------------------ main

\* Collect without `if error: errors.append(error)`: only exceptions count.
CollectOnlyExceptions(t) ==
    /\ main_pc = "pool"
    /\ pc[t] = "done"
    /\ t \notin collected
    /\ collected' = collected \cup {t}
    /\ errors' = IF ret[t] = "raised" THEN errors \cup {t} ELSE errors
    /\ failed' = IF ret[t] = "raised" THEN failed \cup {<<t, "Unknown">>} ELSE failed
    /\ UNCHANGED <<skip_bids, skip_fmriprep, parallel, num_workers, all_tasks,
                   report_file, exit_code, pc, count,
                   completed, out, desc_created_event, desc_file, desc_writers,
                   successful, prep_calls, ret, main_pc>>
    /\ UNCHANGED <<gui_vars, build_vars, lib_vars>>

\* Collect without the report.add_failure of the except branch.
CollectNoAddFailure(t) ==
    /\ main_pc = "pool"
    /\ pc[t] = "done"
    /\ t \notin collected
    /\ collected' = collected \cup {t}
    /\ errors' = IF ret[t] \in {"error", "raised"} THEN errors \cup {t} ELSE errors
    /\ failed' = failed
    /\ UNCHANGED <<skip_bids, skip_fmriprep, parallel, num_workers, all_tasks,
                   report_file, exit_code, pc, count,
                   completed, out, desc_created_event, desc_file, desc_writers,
                   successful, prep_calls, ret, main_pc>>
    /\ UNCHANGED <<gui_vars, build_vars, lib_vars>>

\* for future in as_completed(futures): error = future.result() ...
Collect(t) ==
    /\ main_pc = "pool"
    /\ pc[t] = "done"
    /\ t \notin collected
    /\ collected' = collected \cup {t}
    /\ errors' = IF ret[t] \in {"error", "raised"} THEN errors \cup {t} ELSE errors
    /\ failed' = IF ret[t] = "raised" THEN failed \cup {<<t, "Unknown">>} ELSE failed
    /\ UNCHANGED <<skip_bids, skip_fmriprep, parallel, num_workers, all_tasks,
                   report_file, exit_code, pc, count,
                   completed, out, desc_created_event, desc_file, desc_writers,
                   successful, prep_calls, ret, main_pc>>
    /\ UNCHANGED <<gui_vars, build_vars, lib_vars>>

\* A main that prints [PROGRESS:COMPLETE] without consuming every future.
ProgressCompleteNoWait ==
    /\ main_pc = "pool"
    /\ out' = Append(out, <<"COMPLETE", 0>>)
    /\ main_pc' = "complete"
    /\ UNCHANGED <<skip_bids, skip_fmriprep, parallel, num_workers, all_tasks,
                   report_file, exit_code, pc, count,
                   completed, desc_created_event, desc_file, desc_writers,
                   successful, failed, prep_calls, ret, collected, errors>>
    /\ UNCHANGED <<gui_vars, build_vars, lib_vars>>

\* The with-block ends once every future is consumed:
\*     safe_print("[PROGRESS:COMPLETE]")
ProgressComplete ==
    /\ main_pc = "pool"
    /\ collected = Tasks
    /\ out' = Append(out, <<"COMPLETE", 0>>)
    /\ main_pc' = "complete"
    /\ UNCHANGED <<skip_bids, skip_fmriprep, parallel, num_workers, all_tasks,
                   report_file, exit_code, pc, count,
                   completed, desc_created_event, desc_file, desc_writers,
                   successful, failed, prep_calls, ret, collected, errors>>
    /\ UNCHANGED <<gui_vars, build_vars, lib_vars>>

\* Validate arguments: the BIDS folder does not exist or has no
\* dataset_description.json, or --input / --output_dir is missing: sys.exit(1)
\* before the task list is built.
ValidateArgsExit ==
    /\ main_pc = "bad_args"
    /\ exit_code' = 1
    /\ main_pc' = "aborted"
    /\ UNCHANGED <<skip_bids, skip_fmriprep, parallel, num_workers, all_tasks,
                   report_file, pc, count, completed, out, desc_created_event,
                   desc_file, desc_writers, successful, failed, prep_calls,
                   ret, collected, errors>>
    /\ UNCHANGED <<gui_vars, build_vars, lib_vars>>

\* if not tasks: "No subjects/sessions found to process." and sys.exit(0)
NoTasksExit ==
    /\ main_pc = "no_tasks"
    /\ exit_code' = 0
    /\ main_pc' = "exited"
    /\ UNCHANGED <<skip_bids, skip_fmriprep, parallel, num_workers, all_tasks,
                   report_file, pc, count, completed, out, desc_created_event,
                   desc_file, desc_writers, successful, failed, prep_calls,
                   ret, collected, errors>>
    /\ UNCHANGED <<gui_vars, build_vars, lib_vars>>

\* Save report: open(report_path, 'w') and f.write(report_text); an exception
\* of the write is caught and only a warning is printed.
SaveReport ==
    /\ main_pc = "complete"
    /\ \E saved \in BOOLEAN : report_file' = saved
    /\ main_pc' = "summary"
    /\ UNCHANGED <<skip_bids, skip_fmriprep, parallel, num_workers, all_tasks,
                   exit_code, pc, count, completed, out, desc_created_event,
                   desc_file, desc_writers, successful, failed, prep_calls,
                   ret, collected, errors>>
    /\ UNCHANGED <<gui_vars, build_vars, lib_vars>>

\* Summary: sys.exit(1) if errors else sys.exit(0)
SysExit ==
    /\ main_pc = "summary"
    /\ exit_code' = IF errors # {} THEN 1 ELSE 0
    /\ main_pc' = "exited"
    /\ UNCHANGED <<skip_bids, skip_fmriprep, parallel, num_workers, all_tasks,
                   report_file, pc, count, completed, out, desc_created_event,
                   desc_file, desc_writers, successful, failed, prep_calls,
                   ret, collected, errors>>
    /\ UNCHANGED <<gui_vars, build_vars, lib_vars>>

\* =======================================================================
\* GUI (src/gui_app.py) and the pipeline it spawns (src/scripts/run_pipeline.py)
\* =======================================================================

MaxRuns == 1
MaxRunTasks == 2
\* for attempt in range(3): shutil.rmtree(output_path)
RmtreeAttempts == 3

Runs == 1..MaxRuns

\* the fields of App and its reader thread
app_vars == <<IS_WINDOWS, is_running, stop_requested, current_process,
              current_output_folder, buttons, btn_stop, dialog_open, stop_declined,
              label_status, after_queue, gui_total_tasks, completed_tasks,
              run_no, reader>>

\* A pipeline process that is not running. `report` says that the run has
\* written a report file: scripts/run_pipeline.py has no statement that
\* writes one, so no action sets it.
NoPipeline ==
    [pc |-> "none", n |-> 0, k |-> 0, completed |-> 0, errors |-> FALSE,
     run_fmriprep |-> FALSE, child |-> "none", started |-> {},
     stdout |-> << >>, returncode |-> -1, report |-> FALSE]

NoCleanup ==
    [pc |-> "none", process_to_kill |-> 0, folder_to_delete |-> 0, attempt |-> 0]

InitGui ==
    /\ IS_WINDOWS \in BOOLEAN
    /\ is_running = FALSE
    /\ stop_requested = FALSE
    /\ current_process = 0
    /\ current_output_folder = 0
    /\ buttons = "normal"
    /\ btn_stop = "normal"
    /\ dialog_open = FALSE
    /\ stop_declined = FALSE
    /\ label_status = "Ready"
    /\ after_queue = << >>
    /\ gui_total_tasks = 0
    /\ completed_tasks = 0
    /\ run_no = 0
    /\ reader = [pc |-> "none", run |-> 0, run_fmriprep |-> FALSE]
    /\ pipeline = [r \in Runs |-> NoPipeline]
    /\ cleanup = [r \in Runs |-> NoCleanup]
    /\ disk = {}

\* The GUI variables while only the orchestrator is modelled.
GuiOff ==
    /\ IS_WINDOWS = FALSE
    /\ is_running = FALSE
    /\ stop_requested = FALSE
    /\ current_process = 0
    /\ current_output_folder = 0
    /\ buttons = "normal"
    /\ btn_stop = "normal"
    /\ dialog_open = FALSE
    /\ stop_declined = FALSE
    /\ label_status = "Ready"
    /\ after_queue = << >>
    /\ gui_total_tasks = 0
    /\ completed_tasks = 0
    /\ run_no = 0
    /\ reader = [pc |-> "none", run |-> 0, run_fmriprep |-> FALSE]
    /\ pipeline = [r \in Runs |-> NoPipeline]
    /\ cleanup = [r \in Runs |-> NoCleanup]
    /\ disk = {}

\* The conversion variables while no conversion is looked into.
ConvOff ==
    /\ json_seen = 0
    /\ run_counters = << >>
    /\ organized = << >>
    /\ skipped_count = 0
    /\ conv_pc = "off"

\* Worker threads calling the add_ methods of one ConversionReport
MaxCallers == 3

Callers == 1..MaxCallers

NoCall == [kind |-> "none", error |-> << >>, pc |-> "idle"]

\* The report while no report is looked into: as constructed.
ReportOff ==
    /\ report_lock = 0
    /\ call = [c \in Callers |-> NoCall]
    /\ report_successful = << >>
    /\ report_failed = << >>
    /\ report_skipped = << >>
    /\ report_warnings = << >>
    /\ report_text = [status |-> "", success_count |-> 0, fail_count |-> 0,
                      went_wrong |-> << >>]

\* The progress bar while no run is shown: App as constructed, no pipeline.
ProgOff ==
    /\ proc_total = 0
    /\ proc_workers = 0
    /\ proc_pc = "off"
    /\ worker = << >>
    /\ tracker = 0
    /\ held = << >>
    /\ stdout = << >>
    /\ read_pos = 0
    /\ app_total_tasks = 0
    /\ app_completed_tasks = 0
    /\ current_progress = 0
    /\ target_progress = 0
    /\ task_in_progress = FALSE
    /\ progress_animation_id = FALSE
    /\ progress_bar = 0
    /\ after_sets = << >>

\* No command line yet.
NoCmd == [form |-> "none", skip_bids |-> FALSE, skip_fmriprep |-> FALSE]

\* The start paths of App while they are not looked into: App as constructed.
StartOff ==
    /\ app_buttons = "normal"
    /\ app_is_running = FALSE
    /\ _run_bids = TRUE
    /\ _run_fmriprep = FALSE
    /\ _fmriprep_only_mode = FALSE
    /\ _bids_folder_for_fmriprep = "None"
    /\ preflight_thread = "none"
    /\ after_start = FALSE
    /\ subprocess_thread = [pc |-> "none", bids_folder |-> "None", by |-> "none"]
    /\ cmd = NoCmd
    /\ reset_pending = FALSE
    /\ clicked = "none"
    /\ clicks = 0

\* No preprocessing-only run of main().
FoOff ==
    /\ fo_args = [keep_temp |-> FALSE, skip_bids |-> FALSE, skip_fmriprep |-> FALSE]
    /\ existing_files = {}
    /\ bids_dir_files = {}
    /\ conversion_invoked = FALSE
    /\ fo_pc = [at |-> "off", todo |-> {}]

LibOff == ConvOff /\ ReportOff /\ ProgOff /\ StartOff /\ FoOff

\* The build variables while the task list is taken as built.
BuildOff ==
    /\ input_root = << >>
    /\ scan_pos = 0
    /\ sessions = << >>
    /\ tasks = << >>
    /\ subjects_tasks = << >>
    /\ build_pc = "off"
    /\ args = [subject |-> << >>, session |-> << >>]

\* The orchestrator variables while only the GUI is modelled.
OrchOff ==
    /\ skip_bids = FALSE
    /\ skip_fmriprep = FALSE
    /\ parallel = 0
    /\ all_tasks = << >>
    /\ num_workers = 0
    /\ pc = << >>
    /\ count = << >>
    /\ completed = 0
    /\ out = << >>
    /\ desc_created_event = FALSE
    /\ desc_file = FALSE
    /\ desc_writers = {}
    /\ successful = {}
    /\ failed = {}
    /\ prep_calls = {}
    /\ ret = << >>
    /\ collected = {}
    /\ errors = {}
    /\ main_pc = "off"
    /\ report_file = FALSE
    /\ exit_code = -1

Init == InitOrch /\ GuiOff /\ BuildOff /\ LibOff

Next ==
    \/ \E t \in Tasks : TaskStart(t)
    \/ \E t \in Tasks : BidsConversion(t)
    \/ \E t \in Tasks : DescIsSet(t)
    \/ \E t \in Tasks : DescExists(t)
    \/ \E t \in Tasks : DescWrite(t)
    \/ \E t \in Tasks : DescSet(t)
    \/ \E t \in Tasks : Increment(t)
    \/ \E t \in Tasks : Publish(t)
    \/ \E t \in Tasks : FmriprepStart(t)
    \/ \E t \in Tasks : FmriprepEnd(t)
    \/ \E t \in Tasks : Collect(t)
    \/ ProgressComplete
    \/ ValidateArgsExit
    \/ NoTasksExit
    \/ SaveReport
    \/ SysExit

Spec == Init /\ [][Next]_vars

\* =======================================================================
\* Properties of the orchestrator (checked under Spec)
\* =======================================================================

\* The task has left the descriptor block of process_single_task (lines
\* 99-105) after a successful conversion.
PastDescriptor(t) ==
    /\ t \in successful
    /\ pc[t] \in {"inc", "pub", "prep", "prepping", "done"}

\* C1: the dataset descriptor is written by at most one task of a run: no
\* two tasks both pass the existence check and both write the file.
C1_SingleDescriptorWriter == Cardinality(desc_writers) <= 1

\* C2: once a task has finished its conversion step with success (it is
\* past the descriptor block), dataset_description.json exists; so it
\* exists at run end whenever some conversion succeeded.
C2_DescriptorExistsAfterSuccess ==
    \A t \in Tasks : PastDescriptor(t) => desc_file

\* A conversion task that is still queued or whose conversion is running.
ConversionOutstanding(u) == ~skip_bids /\ pc[u] \in {"pending", "conv"}

\* C3: no preprocessing invocation for a subject is in progress while a
\* conversion task of the same subject is still pending or running.
C3_PrepAfterSubjectConversions ==
    \A t \in Tasks : pc[t] = "prepping" =>
        \A u \in Tasks : sub_id(u) = sub_id(t) => ~ConversionOutstanding(u)

Subjects == { sub_id(t) : t \in Tasks }

PrepCallsOf(s) == { c \in prep_calls : c[2] = s }

\* Every conversion of the subject succeeded (or conversion is skipped), so
\* the failure policy does not exempt the subject from preprocessing.
SubjectConverted(s) ==
    \A t \in Tasks : sub_id(t) = s => (skip_bids \/ t \in successful)

\* C4: with preprocessing enabled, at run end the preprocessing collaborator
\* has been invoked exactly once for each (converted) subject, however many
\* sessions the subject has.
C4_PrepOncePerSubject ==
    (main_pc = "complete" /\ ~skip_fmriprep) =>
        \A s \in Subjects : SubjectConverted(s) => Cardinality(PrepCallsOf(s)) = 1

\* The task still has a collaborator to run or a result to record: it is
\* queued, converting, in the descriptor block, or preprocessing.
WorkLeft(t) ==
    pc[t] \in {"pending", "conv", "desc_is_set", "desc_exists", "desc_write",
               "desc_set", "prep", "prepping"}

\* The stage configurations of the claim: conversion only, conversion plus
\* preprocessing, preprocessing only.
SomeStageEnabled == ~(skip_bids /\ skip_fmriprep)

\* C5: in every stage configuration, when [PROGRESS:COMPLETE] is emitted
\* the completed count is total, and the count does not reach total while a
\* task still has work to do.
C5_CompletedIsTotalAtEnd ==
    SomeStageEnabled =>
        /\ main_pc = "complete" => completed = total_tasks
        /\ completed = total_tasks => \A t \in Tasks : ~WorkLeft(t)

\* The tasks that have gone through ProgressTracker.increment.
Incremented == { t \in Tasks : count[t] # 0 }

\* C6: in every reachable state 0 <= completed <= total, every task has
\* raised the counter at most once (the counter is the number of tasks that
\* incremented), and no step lowers it or raises it by more than one.
C6_CompletedMonotonicBounded ==
    /\ [](/\ 0 <= completed
          /\ completed <= total_tasks
          /\ completed = Cardinality(Incremented))
    /\ [][completed' >= completed /\ completed' <= completed + 1]_vars

\* C6 witness: a two-task run in which one conversion failed and one
\* succeeded, and both tasks have incremented the counter.
C6_Witness ==
    /\ total_tasks = 2
    /\ completed = 2
    /\ successful # {}
    /\ \E t \in Tasks : <<t, "BIDS Conversion">> \in failed

TaskMarkers == SelectSeq(out, LAMBDA m : m[1] = "TASK")

\* C7: the values of the successive [PROGRESS:TASK:n] markers on the output
\* never decrease.
C7_TaskMarkersNonDecreasing ==
    \A i \in 1..Len(TaskMarkers) : \A j \in 1..Len(TaskMarkers) :
        i < j => TaskMarkers[i][2] <= TaskMarkers[j][2]

\* The fMRIPrep invocations made by task t.
PrepCallsBy(t) == { c \in prep_calls : c[1] = t }

\* report.add_failure(.., "BIDS Conversion") was called for task t.
ConversionFailed(t) == <<t, "BIDS Conversion">> \in failed

\* progress_tracker.task_start(task_num) has been printed for task t.
Started(t) == \E i \in 1..Len(out) : out[i] = <<"TASK_START", task_num(t)>>

\* main has left the `with ThreadPoolExecutor` block.
PoolClosed == main_pc \in {"complete", "summary", "exited"}

\* C13: a task whose conversion failed never reaches preprocessing, and
\* when the pool has closed every submitted task was started and has run to
\* its end, a task whose conversion succeeded still having had its
\* preprocessing invoked (when enabled) whatever happened to the others.
C13_ConversionFailureIsLocal ==
    /\ \A t \in Tasks : ConversionFailed(t) =>
          PrepCallsBy(t) = {} /\ pc[t] \notin {"prep", "prepping"}
    /\ PoolClosed =>
          \A u \in Tasks :
             /\ Started(u)
             /\ pc[u] = "done"
             /\ ret[u] # "none"
             /\ (u \in successful /\ ~skip_fmriprep) => PrepCallsBy(u) # {}

\* C13 witness: the pool has closed after the first task's conversion
\* failed and the second task was converted and preprocessed.
C13_Witness ==
    /\ main_pc = "complete"
    /\ total_tasks = 2
    /\ ConversionFailed(1)
    /\ 2 \in successful
    /\ PrepCallsBy(2) # {}
    /\ ret[2] = "ok"

\* The report holds a failure of task t (any stage).
TaskFailed(t) == \E f \in failed : f[1] = t

C15_ReportWrittenBeforeExit == main_pc = "exited" => report_file

\* C17: an exception that left process_single_task is recorded, when its
\* future is collected, as exactly one failure of that task (stage Unknown)
\* and one entry of errors, the task counting in no success; and the pool
\* still runs every task to its end before it closes.
C17_ExceptionBecomesOneFailure ==
    /\ \A t \in collected : ret[t] = "raised" =>
          /\ { f \in failed : f[1] = t } = {<<t, "Unknown">>}
          /\ t \in errors
          /\ t \notin successful
    /\ (PoolClosed /\ \E t \in Tasks : ret[t] = "raised") =>
          \A u \in Tasks : pc[u] = "done" /\ u \in collected /\ ret[u] # "none"

\* C17 witness: the pool has closed after the first task raised and the
\* second task, started later, was converted.
C17_Witness ==
    /\ main_pc = "complete"
    /\ total_tasks = 2
    /\ ret[1] = "raised"
    /\ <<1, "Unknown">> \in failed
    /\ 2 \in successful
    /\ ret[2] = "ok"

\* C18: the pool size is min(args.parallel, total_tasks) and at no moment
\* are more tasks in flight (started, not finished) than the pool size.
C18_InFlightAtMostW ==
    /\ num_workers = Min(parallel, total_tasks)
    /\ Cardinality(InFlight) <= num_workers

\* C18 witness: two tasks and one worker; one task is in flight while the
\* other waits in the queue.
C18_Witness ==
    /\ total_tasks = 2
    /\ parallel = 1
    /\ Cardinality(InFlight) = 1
    /\ \E t \in Tasks : pc[t] = "pending"

\* ------------------------------------------------ the pipeline subprocess

MainAlive(r) == pipeline[r].pc \notin {"none", "dead"}

ChildAlive(r) == pipeline[r].child = "alive"

Emit(p, line) == [p EXCEPT !.stdout = Append(@, line)]

\* output_folder.mkdir(parents=True, exist_ok=True)
PlMkdir(r) ==
    /\ pipeline[r].pc = "mkdir"
    /\ disk' = disk \cup {r}
    /\ pipeline' = [pipeline EXCEPT ![r].pc = "print_folder"]
    /\ UNCHANGED <<app_vars, cleanup>>
    /\ UNCHANGED <<orch_vars, build_vars, lib_vars>>

\* safe_print(f"Output folder: {output_folder}")
PlPrintFolder(r) ==
    /\ pipeline[r].pc = "print_folder"
    /\ pipeline' = [pipeline EXCEPT ![r] = [Emit(@, <<"Output folder:", r>>) EXCEPT !.pc = "scan"]]
    /\ UNCHANGED <<app_vars, cleanup, disk>>
    /\ UNCHANGED <<orch_vars, build_vars, lib_vars>>

\* Config lookup and task discovery: the config file is missing (exit 1),
\* no session is found (exit 0), or n single-session subjects are found and
\* [PROGRESS:TOTAL:n] is printed.
PlScan(r) ==
    /\ pipeline[r].pc = "scan"
    /\ \E config_found \in BOOLEAN, found \in 0..MaxRunTasks :
         pipeline' = [pipeline EXCEPT ![r] =
            IF ~config_found
            THEN [Emit(@, <<"LOG", 0>>) EXCEPT !.pc = "exit", !.errors = TRUE]
            ELSE IF found = 0
            THEN [Emit(@, <<"LOG", 0>>) EXCEPT !.pc = "exit"]
            ELSE [Emit(@, <<"TOTAL", found>>) EXCEPT !.pc = "task", !.n = found]]
    /\ UNCHANGED <<app_vars, cleanup, disk>>
    /\ UNCHANGED <<orch_vars, build_vars, lib_vars>>

\* process_single_task of the next subject: progress_tracker.task_start and
\* the dcm2bids child process is launched (subprocess.run).
PlTaskStart(r) ==
    /\ pipeline[r].pc = "task"
    /\ pipeline[r].k < pipeline[r].n
    /\ pipeline' = [pipeline EXCEPT ![r] =
          [Emit(@, <<"TASK_START", pipeline[r].k>>) EXCEPT
              !.pc = "bids", !.child = "alive",
              !.started = @ \cup {pipeline[r].k}]]
    /\ UNCHANGED <<app_vars, cleanup, disk>>
    /\ UNCHANGED <<orch_vars, build_vars, lib_vars>>

\* dcm2bids returns: progress_tracker.increment() on either outcome; a failed
\* conversion ends the task, a successful one goes on to fMRIPrep if enabled.
PlBidsEnd(r) ==
    /\ pipeline[r].pc = "bids"
    /\ ChildAlive(r)
    /\ \E ok \in BOOLEAN :
         pipeline' = [pipeline EXCEPT ![r] =
            [Emit(@, <<"TASK", pipeline[r].completed + 1>>) EXCEPT
               !.completed = @ + 1,
               !.errors = @ \/ ~ok,
               !.child = IF ok /\ pipeline[r].run_fmriprep THEN "alive" ELSE "none",
               !.pc = IF ok /\ pipeline[r].run_fmriprep THEN "fmriprep" ELSE "task",
               !.k = IF ok /\ pipeline[r].run_fmriprep THEN @ ELSE @ + 1]]
    /\ UNCHANGED <<app_vars, cleanup, disk>>
    /\ UNCHANGED <<orch_vars, build_vars, lib_vars>>

\* The fMRIPrep runner child returns.
PlFmriprepEnd(r) ==
    /\ pipeline[r].pc = "fmriprep"
    /\ ChildAlive(r)
    /\ \E ok \in BOOLEAN :
         pipeline' = [pipeline EXCEPT ![r] =
            [@ EXCEPT !.errors = @ \/ ~ok, !.child = "none",
                      !.pc = "task", !.k = @ + 1]]
    /\ UNCHANGED <<app_vars, cleanup, disk>>
    /\ UNCHANGED <<orch_vars, build_vars, lib_vars>>

\* safe_print("[PROGRESS:COMPLETE]") once every subject is processed
PlComplete(r) ==
    /\ pipeline[r].pc = "task"
    /\ pipeline[r].k = pipeline[r].n
    /\ pipeline' = [pipeline EXCEPT ![r] = [Emit(@, <<"COMPLETE", 0>>) EXCEPT !.pc = "exit"]]
    /\ UNCHANGED <<app_vars, cleanup, disk>>
    /\ UNCHANGED <<orch_vars, build_vars, lib_vars>>

\* sys.exit(1) if errors else sys.exit(0)
PlExit(r) ==
    /\ pipeline[r].pc = "exit"
    /\ pipeline' = [pipeline EXCEPT ![r].pc = "dead",
                                    ![r].returncode = IF pipeline[r].errors THEN 1 ELSE 0]
    /\ UNCHANGED <<app_vars, cleanup, disk>>
    /\ UNCHANGED <<orch_vars, build_vars, lib_vars>>

\* ---------------------------------------------------------- App, Tk thread

\* run_bids_only / run_full_pipeline -> _start_pipeline_internal (the paths
\* validate); the run_subprocess thread is started.
StartPipeline(full) ==
    /\ buttons = "normal"
    /\ ~dialog_open
    /\ run_no < Len(pipeline)
    /\ is_running' = TRUE
    /\ stop_requested' = FALSE
    /\ current_output_folder' = 0
    /\ buttons' = "disabled"
    /\ gui_total_tasks' = 0
    /\ completed_tasks' = 0
    /\ label_status' = "Processing..."
    /\ run_no' = run_no + 1
    /\ reader' = [pc |-> "popen", run |-> run_no + 1, run_fmriprep |-> full]
    /\ stop_declined' = FALSE
    /\ UNCHANGED <<IS_WINDOWS, current_process, btn_stop, dialog_open,
                   after_queue, pipeline, cleanup, disk>>
    /\ UNCHANGED <<orch_vars, build_vars, lib_vars>>

\* request_stop up to the confirmation dialog: returns at once when no run
\* is in progress, else messagebox.askyesno opens.
RequestStop ==
    /\ btn_stop = "normal"
    /\ ~dialog_open
    /\ is_running
    /\ dialog_open' = TRUE
    /\ UNCHANGED <<IS_WINDOWS, stop_declined, is_running, stop_requested, current_process,
                   current_output_folder, buttons, btn_stop, label_status,
                   after_queue, gui_total_tasks, completed_tasks, run_no,
                   reader, pipeline, cleanup, disk>>
    /\ UNCHANGED <<orch_vars, build_vars, lib_vars>>

\* The user answers the dialog; on Yes the flag is set and the stop button
\* disabled.
ConfirmStop(result) ==
    /\ dialog_open
    /\ dialog_open' = FALSE
    /\ stop_requested' = IF result THEN TRUE ELSE stop_requested
    /\ btn_stop' = IF result THEN "disabled" ELSE btn_stop
    /\ stop_declined' = (stop_declined \/ ~result)
    /\ UNCHANGED <<IS_WINDOWS, is_running, current_process,
                   current_output_folder, buttons, label_status, after_queue,
                   gui_total_tasks, completed_tasks, run_no, reader, pipeline,
                   cleanup, disk>>
    /\ UNCHANGED <<orch_vars, build_vars, lib_vars>>

\* The Tk main loop runs the oldest callback queued with self.after(0, ..):
\* a label_status update, or _reset_ui.
TkAfter ==
    /\ after_queue # << >>
    /\ after_queue' = Tail(after_queue)
    /\ IF Head(after_queue) = "_reset_ui"
       THEN /\ is_running' = FALSE
            /\ stop_requested' = FALSE
            /\ btn_stop' = "normal"
            /\ buttons' = "normal"
            /\ UNCHANGED label_status
       ELSE /\ label_status' = Head(after_queue)
            /\ UNCHANGED <<is_running, stop_requested, btn_stop, buttons>>
    /\ UNCHANGED <<IS_WINDOWS, stop_declined, current_process, current_output_folder,
                   dialog_open, gui_total_tasks, completed_tasks, run_no,
                   reader, pipeline, cleanup, disk>>
    /\ UNCHANGED <<orch_vars, build_vars, lib_vars>>

\* ------------------------------------------------- run_subprocess (thread)

\* self.current_process = subprocess.Popen(cmd, start_new_session / new group)
Popen ==
    /\ reader.pc = "popen"
    /\ current_process' = reader.run
    /\ pipeline' = [pipeline EXCEPT ![reader.run] =
                      [NoPipeline EXCEPT !.pc = "mkdir", !.run_fmriprep = reader.run_fmriprep]]
    /\ reader' = [reader EXCEPT !.pc = "loop"]
    /\ UNCHANGED <<IS_WINDOWS, stop_declined, is_running, stop_requested,
                   current_output_folder, buttons, btn_stop, dialog_open,
                   label_status, after_queue, gui_total_tasks, completed_tasks,
                   run_no, cleanup, disk>>
    /\ UNCHANGED <<orch_vars, build_vars, lib_vars>>

\* _handle_progress_marker, for the markers that change App's counters
HandleTotal(line) == IF line[1] = "TOTAL" THEN line[2] ELSE gui_total_tasks

HandleCompleted(line) ==
    CASE line[1] = "TOTAL" -> 0
      [] line[1] = "TASK" -> line[2]
      [] OTHER -> completed_tasks

\* One iteration of `for line in self.current_process.stdout`: break when
\* stop_requested, else capture the output folder / handle the marker.
ReadLine ==
    /\ reader.pc = "loop"
    /\ pipeline[reader.run].stdout # << >>
    /\ LET line == Head(pipeline[reader.run].stdout) IN
         /\ pipeline' = [pipeline EXCEPT ![reader.run].stdout = Tail(@)]
         /\ IF stop_requested
            THEN /\ reader' = [reader EXCEPT !.pc = "after_loop"]
                 /\ UNCHANGED <<current_output_folder, gui_total_tasks, completed_tasks>>
            ELSE /\ current_output_folder' =
                      IF line[1] = "Output folder:" THEN line[2] ELSE current_output_folder
                 /\ gui_total_tasks' = HandleTotal(line)
                 /\ completed_tasks' = HandleCompleted(line)
                 /\ UNCHANGED reader
    /\ UNCHANGED <<IS_WINDOWS, stop_declined, is_running, stop_requested, current_process,
                   buttons, btn_stop, dialog_open, label_status, after_queue,
                   run_no, cleanup, disk>>
    /\ UNCHANGED <<orch_vars, build_vars, lib_vars>>

\* The loop ends at end of file: the pipeline process is gone and every line
\* has been read.
ReadEOF ==
    /\ reader.pc = "loop"
    /\ pipeline[reader.run].stdout = << >>
    /\ pipeline[reader.run].pc = "dead"
    /\ reader' = [reader EXCEPT !.pc = "after_loop"]
    /\ UNCHANGED <<IS_WINDOWS, stop_declined, is_running, stop_requested, current_process,
                   current_output_folder, buttons, btn_stop, dialog_open,
                   label_status, after_queue, gui_total_tasks, completed_tasks,
                   run_no, pipeline, cleanup, disk>>
    /\ UNCHANGED <<orch_vars, build_vars, lib_vars>>

\* PerformStop without the `return` after self._perform_stop(): the thread
\* stays at the stop check and can take it again.
PerformStopNoReturn ==
    /\ reader.pc = "after_loop"
    /\ stop_requested
    /\ cleanup' = [cleanup EXCEPT ![reader.run] =
                     [pc |-> "terminate", process_to_kill |-> current_process,
                      folder_to_delete |-> current_output_folder, attempt |-> 0]]
    /\ current_process' = 0
    /\ current_output_folder' = 0
    /\ after_queue' = after_queue \o <<"Cancelled by user", "_reset_ui">>
    /\ UNCHANGED <<IS_WINDOWS, stop_declined, is_running, stop_requested, buttons,
                   btn_stop, dialog_open, label_status, gui_total_tasks,
                   completed_tasks, run_no, reader, pipeline, disk>>
    /\ UNCHANGED <<orch_vars, build_vars, lib_vars>>

\* if self.stop_requested: self._perform_stop(); return
\* _perform_stop captures process and folder, clears the references, queues
\* the "Cancelled" label and _reset_ui, and starts cleanup_background.
PerformStop ==
    /\ reader.pc = "after_loop"
    /\ stop_requested
    /\ cleanup' = [cleanup EXCEPT ![reader.run] =
                     [pc |-> "terminate", process_to_kill |-> current_process,
                      folder_to_delete |-> current_output_folder, attempt |-> 0]]
    /\ current_process' = 0
    /\ current_output_folder' = 0
    /\ after_queue' = after_queue \o <<"Cancelled by user", "_reset_ui">>
    /\ reader' = [reader EXCEPT !.pc = "end"]
    /\ UNCHANGED <<IS_WINDOWS, stop_declined, is_running, stop_requested, buttons, btn_stop,
                   dialog_open, label_status, gui_total_tasks, completed_tasks,
                   run_no, pipeline, disk>>
    /\ UNCHANGED <<orch_vars, build_vars, lib_vars>>

\* No stop: self.current_process.wait(), the label by returncode, then
\* current_process = None and _reset_ui is queued.
WaitAndReport ==
    /\ reader.pc = "after_loop"
    /\ ~stop_requested
    /\ pipeline[reader.run].pc = "dead"
    /\ after_queue' = after_queue \o
          <<IF pipeline[reader.run].returncode = 0 THEN "All done!" ELSE "Something went wrong",
            "_reset_ui">>
    /\ current_process' = 0
    /\ reader' = [reader EXCEPT !.pc = "end"]
    /\ UNCHANGED <<IS_WINDOWS, stop_declined, is_running, stop_requested,
                   current_output_folder, buttons, btn_stop, dialog_open,
                   label_status, gui_total_tasks, completed_tasks, run_no,
                   pipeline, cleanup, disk>>
    /\ UNCHANGED <<orch_vars, build_vars, lib_vars>>

\* ---------------------------------------------- cleanup_background (thread)

\* SIGTERM reaches the processes of the group: each exits, or has not exited
\* (a handler, a blocked or ignored signal).
Sigterm(p, main_exits, child_exits) ==
    [p EXCEPT !.pc = IF p.pc \notin {"none", "dead"} /\ main_exits THEN "dead" ELSE @,
              !.returncode = IF p.pc \notin {"none", "dead"} /\ main_exits THEN -15 ELSE @,
              !.child = IF p.child = "alive" /\ child_exits THEN "none" ELSE @]

\* taskkill /F /T /PID: the process and its child processes are ended.
Taskkill(p) ==
    [p EXCEPT !.pc = IF p.pc \notin {"none", "dead"} THEN "dead" ELSE @,
              !.returncode = IF p.pc \notin {"none", "dead"} THEN 1 ELSE @,
              !.child = "none"]

\* if process_to_kill: taskkill (Windows) or os.killpg(.., SIGTERM) (Unix)
Terminate(r) ==
    /\ cleanup[r].pc = "terminate"
    /\ IF cleanup[r].process_to_kill = 0
       THEN UNCHANGED pipeline
       ELSE IF IS_WINDOWS
            THEN pipeline' = [pipeline EXCEPT ![r] = Taskkill(@)]
            ELSE \E main_exits \in BOOLEAN, child_exits \in BOOLEAN :
                    pipeline' = [pipeline EXCEPT ![r] = Sigterm(@, main_exits, child_exits)]
    /\ cleanup' = [cleanup EXCEPT ![r].pc = "wait"]
    /\ UNCHANGED <<app_vars, disk>>
    /\ UNCHANGED <<orch_vars, build_vars, lib_vars>>

\* process_to_kill.kill(): SIGKILL to the pipeline process itself
Kill(p) ==
    [p EXCEPT !.pc = IF p.pc \notin {"none", "dead"} THEN "dead" ELSE @,
              !.returncode = IF p.pc \notin {"none", "dead"} THEN -9 ELSE @]

\* process_to_kill.wait(timeout=5); on TimeoutExpired process_to_kill.kill()
WaitOrKill(r) ==
    /\ cleanup[r].pc = "wait"
    /\ IF cleanup[r].process_to_kill = 0
       THEN UNCHANGED pipeline
       ELSE pipeline' = [pipeline EXCEPT ![r] = Kill(@)]
    /\ cleanup' = [cleanup EXCEPT ![r].pc = "rmtree"]
    /\ UNCHANGED <<app_vars, disk>>
    /\ UNCHANGED <<orch_vars, build_vars, lib_vars>>

\* if folder_to_delete and output_path.exists(): there is nothing to delete
NothingToDelete(r) ==
    /\ cleanup[r].pc = "rmtree"
    /\ cleanup[r].attempt = 0
    /\ cleanup[r].folder_to_delete = 0 \/ cleanup[r].folder_to_delete \notin disk
    /\ cleanup' = [cleanup EXCEPT ![r].pc = "done"]
    /\ UNCHANGED <<app_vars, pipeline, disk>>
    /\ UNCHANGED <<orch_vars, build_vars, lib_vars>>

\* One pass of `for attempt in range(3)`: shutil.rmtree removes the folder,
\* raises PermissionError (sleep and retry while attempts remain), or raises
\* something else (logged by the outer except).
RmtreeOutcomes == {"removed", "PermissionError", "OSError"}

Rmtree(r) ==
    /\ cleanup[r].pc = "rmtree"
    /\ cleanup[r].folder_to_delete # 0
    /\ cleanup[r].attempt > 0 \/ cleanup[r].folder_to_delete \in disk
    /\ \E o \in RmtreeOutcomes :
         CASE o = "removed" ->
                /\ disk' = disk \ {cleanup[r].folder_to_delete}
                /\ cleanup' = [cleanup EXCEPT ![r].pc = "done"]
           [] o = "PermissionError" ->
                /\ cleanup' = [cleanup EXCEPT
                      ![r].attempt = @ + 1,
                      ![r].pc = IF cleanup[r].attempt + 1 = RmtreeAttempts THEN "done" ELSE "rmtree"]
                /\ UNCHANGED disk
           [] OTHER ->
                /\ cleanup' = [cleanup EXCEPT ![r].pc = "done"]
                /\ UNCHANGED disk
    /\ UNCHANGED <<app_vars, pipeline>>
    /\ UNCHANGED <<orch_vars, build_vars, lib_vars>>

NextGui ==
    \/ \E full \in BOOLEAN : StartPipeline(full)
    \/ RequestStop
    \/ \E result \in BOOLEAN : ConfirmStop(result)
    \/ TkAfter
    \/ Popen
    \/ ReadLine
    \/ ReadEOF
    \/ PerformStop
    \/ WaitAndReport
    \/ \E r \in DOMAIN pipeline : PlMkdir(r)
    \/ \E r \in DOMAIN pipeline : PlPrintFolder(r)
    \/ \E r \in DOMAIN pipeline : PlScan(r)
    \/ \E r \in DOMAIN pipeline : PlTaskStart(r)
    \/ \E r \in DOMAIN pipeline : PlBidsEnd(r)
    \/ \E r \in DOMAIN pipeline : PlFmriprepEnd(r)
    \/ \E r \in DOMAIN pipeline : PlComplete(r)
    \/ \E r \in DOMAIN pipeline : PlExit(r)
    \/ \E r \in DOMAIN pipeline : Terminate(r)
    \/ \E r \in DOMAIN pipeline : WaitOrKill(r)
    \/ \E r \in DOMAIN pipeline : NothingToDelete(r)
    \/ \E r \in DOMAIN pipeline : Rmtree(r)

InitGuiSpec == InitGui /\ OrchOff /\ BuildOff /\ LibOff

SpecGui == InitGuiSpec /\ [][NextGui]_vars

\* =======================================================================
\* Properties of the GUI and its pipeline (checked under SpecGui)
\* =======================================================================

\* C8: once the cancellation flag is set no new task starts: while
\* stop_requested holds, no step adds a task to the started tasks of a run.
C8_NoTaskStartsAfterStop ==
    [][stop_requested => \A r \in Runs : pipeline'[r].started = pipeline[r].started]_vars

\* C9: when the cleanup of a cancelled run has finished, the whole process
\* tree of the run (the pipeline process and the collaborator it spawned)
\* has been terminated.
C9_ProcessTreeTerminated ==
    \A r \in Runs : cleanup[r].pc = "done" => ~MainAlive(r) /\ ~ChildAlive(r)

\* C10: when the cleanup of a cancelled run has finished, the output folder
\* of the run no longer exists on disk.
C10_OutputRemovedAfterCleanup ==
    \A r \in Runs : cleanup[r].pc = "done" => r \notin disk

\* The terminal states a run can be reported in (label_status texts).
TerminalLabels == {"Cancelled by user", "All done!", "Something went wrong"}

\* The terminal states reported for the current run: the label shown, or a
\* label update queued with self.after(0, ...).
Reported ==
    ({label_status} \cup { after_queue[i] : i \in 1..Len(after_queue) })
        \cap TerminalLabels

\* C11: a run is reported in at most one terminal state, and while an
\* accepted cancellation request stands (stop_requested) the run is not
\* reported as success or as failure.
C11_CancelledRunEndsCancelled ==
    /\ Cardinality(Reported) <= 1
    /\ stop_requested => Reported \subseteq {"Cancelled by user"}

\* Position of cleanup_background along its code.
CleanupRank(c) ==
    CASE c.pc = "none" -> 0
      [] c.pc = "terminate" -> 1
      [] c.pc = "wait" -> 2
      [] c.pc = "rmtree" -> 3
      [] OTHER -> 4

\* The "Cancelled by user" outcomes reported and not yet replaced.
CancelledReports ==
    { i \in 1..Len(after_queue) : after_queue[i] = "Cancelled by user" }
        \cup (IF label_status = "Cancelled by user" THEN {0} ELSE {})

\* C12: however often the stop button is used during a run, the run has
\* one cancellation: once a request is accepted no further request can be
\* entered, the run is reported cancelled at most once, and its cleanup is
\* started at most once (the captured process and folder never change and
\* the cleanup thread only moves forward: one termination, one removal).
C12_CancellationIdempotent ==
    /\ [](stop_requested => btn_stop = "disabled" /\ ~dialog_open)
    /\ [](Cardinality(CancelledReports) <= 1)
    /\ [][\A r \in Runs :
            /\ CleanupRank(cleanup'[r]) >= CleanupRank(cleanup[r])
            /\ cleanup[r].pc # "none" =>
                  /\ cleanup'[r].process_to_kill = cleanup[r].process_to_kill
                  /\ cleanup'[r].folder_to_delete = cleanup[r].folder_to_delete
                  /\ cleanup[r].pc = "terminate" \/ cleanup'[r].pc # "terminate"
                  /\ cleanup'[r].pc = "terminate" => cleanup'[r] = cleanup[r]]_vars

\* C12 witness: the stop button was used twice during the run (declined,
\* then accepted) and the cleanup of the cancelled run has finished.
C12_Witness ==
    /\ stop_declined
    /\ run_no \in Runs
    /\ cleanup[run_no].pc = "done"
    /\ cleanup[run_no].process_to_kill = run_no

\* C16: when the cleanup of a cancelled run has finished, a report of the
\* run has been produced.
C16_ReportAfterCancellation ==
    \A r \in Runs : cleanup[r].pc = "done" => pipeline[r].report

\* =======================================================================
\* Discovery and task building (src/src/core/discovery.py, main lines 380-443)
\* =======================================================================

\* Folder names are sequences of characters. The characters that occur, in
\* code-point order (the order `sorted` compares names by).
Alphabet ==
    <<" ", "-", ".", "0", "1", "2", "3", "4", "5", "6", "7", "8", "9", ":",
      "A", "B", "C", "D", "E", "F", "G", "H", "I", "J", "K", "L", "M",
      "N", "O", "P", "Q", "R", "S", "T", "U", "V", "W", "X", "Y", "Z", "_",
      "a", "b", "c", "d", "e", "f", "g", "h", "i", "j", "k", "l", "m",
      "n", "o", "p", "q", "r", "s", "t", "u", "v", "w", "x", "y", "z">>

\* ord(): the position of each character in that order
OrdTable ==
    [c \in { Alphabet[i] : i \in 1..Len(Alphabet) } |->
        CHOOSE i \in 1..Len(Alphabet) : Alphabet[i] = c]

Ord(c) == OrdTable[c]

IsDigit(c) == Ord(c) \in Ord("0")..Ord("9")

IsUpper(c) == Ord(c) \in Ord("A")..Ord("Z")

IsLower(c) == Ord(c) \in Ord("a")..Ord("z")

\* str.lower()
LowerChar(c) == IF IsUpper(c) THEN Alphabet[Ord(c) - Ord("A") + Ord("a")] ELSE c

Lower(s) == [i \in 1..Len(s) |-> LowerChar(s[i])]

\* str.startswith(prefix)
StartsWith(s, prefix) ==
    /\ Len(prefix) <= Len(s)
    /\ SubSeq(s, 1, Len(prefix)) = prefix

\* s[n:]
Drop(s, n) == SubSeq(s, n + 1, Len(s))

\* the regular expression \d+$ matched against the whole of s
AllDigits(s) == Len(s) > 0 /\ \A i \in 1..Len(s) : IsDigit(s[i])

\* str.zfill(2)
zfill2(s) == IF Len(s) < 2 THEN [i \in 1..(2 - Len(s)) |-> "0"] \o s ELSE s

\* str(n) for a natural number n
RECURSIVE str(_)
str(n) ==
    IF n < 10 THEN <<Alphabet[Ord("0") + n]>>
    ELSE str(n \div 10) \o <<Alphabet[Ord("0") + (n % 10)]>>

\* sorted(): a < b for two names, character by character
RECURSIVE NameLess(_, _)
NameLess(a, b) ==
    IF a = << >> THEN b # << >>
    ELSE IF b = << >> THEN FALSE
    ELSE IF a[1] = b[1] THEN NameLess(Tail(a), Tail(b))
    ELSE Ord(a[1]) < Ord(b[1])

\* re.match(r'^<prefix>[_-]?(\d+)$', name): the digits of group 1, or << >>
\* when the name does not match.
PrefixSepDigits(name, prefix) ==
    IF ~StartsWith(name, prefix) THEN << >>
    ELSE LET rest == Drop(name, Len(prefix)) IN
         IF AllDigits(rest) THEN rest
         ELSE IF rest # << >> /\ rest[1] \in {"_", "-"} /\ AllDigits(Tail(rest))
              THEN Tail(rest)
              ELSE << >>

\* re.match(r'^<prefix>(\d+)$', name): the digits of group 1, or << >>
PrefixDigits(name, prefix) ==
    IF StartsWith(name, prefix) /\ AllDigits(Drop(name, Len(prefix)))
    THEN Drop(name, Len(prefix))
    ELSE << >>

\* sanitize_id trying the prefixes shortest first: ['sub', 'sub-', 'subject',
\* 'subject-'].
sanitize_id_ShortestFirst(raw_id) ==
    LET low == Lower(raw_id)
        clean ==
            IF StartsWith(low, <<"s","u","b">>) THEN Drop(raw_id, 3)
            ELSE IF StartsWith(low, <<"s","u","b","-">>) THEN Drop(raw_id, 4)
            ELSE IF StartsWith(low, <<"s","u","b","j","e","c","t">>) THEN Drop(raw_id, 7)
            ELSE IF StartsWith(low, <<"s","u","b","j","e","c","t","-">>) THEN Drop(raw_id, 8)
            ELSE raw_id
    IN SelectSeq(clean, LAMBDA c : IsDigit(c) \/ IsUpper(c) \/ IsLower(c))

\* sanitize_id: strip the first matching prefix of ['subject-', 'subject',
\* 'sub-', 'sub'], keep only [a-zA-Z0-9]; None (here << >>) if nothing is left.
sanitize_id(raw_id) ==
    LET low == Lower(raw_id)
        clean ==
            IF StartsWith(low, <<"s","u","b","j","e","c","t","-">>) THEN Drop(raw_id, 8)
            ELSE IF StartsWith(low, <<"s","u","b","j","e","c","t">>) THEN Drop(raw_id, 7)
            ELSE IF StartsWith(low, <<"s","u","b","-">>) THEN Drop(raw_id, 4)
            ELSE IF StartsWith(low, <<"s","u","b">>) THEN Drop(raw_id, 3)
            ELSE raw_id
    IN SelectSeq(clean, LAMBDA c : IsDigit(c) \/ IsUpper(c) \/ IsLower(c))

\* A directory entry is [name, kind]: a directory holding .dcm files
\* ("dicom_dir"), an empty directory ("empty_dir") or a plain .dcm file
\* ("dcm_file").
is_dir(d) == d.kind \in {"dicom_dir", "empty_dir"}

\* sorted(Path(subject_path).iterdir())
RECURSIVE Sorted(_)
Sorted(S) ==
    IF S = {} THEN << >>
    ELSE LET m == CHOOSE x \in S : \A y \in S : y = x \/ NameLess(x.name, y.name)
         IN <<m>> \o Sorted(S \ {m})

\* One pass of the loop of find_sessions over entry d: the session id the
\* naming rules give it (first match wins), or << >> when d is no session.
\* n is len(sessions) at that moment.
SessionIdOf(d, n) ==
    LET name == Lower(d.name) IN
    IF ~is_dir(d) \/ d.name[1] = "." THEN << >>
    ELSE IF PrefixDigits(d.name, <<"s","e","s","-">>) # << >>
         THEN PrefixDigits(d.name, <<"s","e","s","-">>)
    ELSE IF PrefixDigits(name, <<"m","r","i">>) # << >>
         THEN zfill2(PrefixDigits(name, <<"m","r","i">>))
    ELSE IF PrefixSepDigits(name, <<"s","e","s","s","i","o","n">>) # << >>
         THEN zfill2(PrefixSepDigits(name, <<"s","e","s","s","i","o","n">>))
    ELSE IF PrefixSepDigits(name, <<"t","i","m","e","p","o","i","n","t">>) # << >>
         THEN zfill2(PrefixSepDigits(name, <<"t","i","m","e","p","o","i","n","t">>))
    ELSE IF PrefixSepDigits(name, <<"t","p">>) # << >>
         THEN zfill2(PrefixSepDigits(name, <<"t","p">>))
    ELSE IF name \in {<<"b","a","s","e","l","i","n","e">>, <<"p","r","e">>,
                      <<"s","c","r","e","e","n","i","n","g">>}
         THEN <<"0", "1">>
    ELSE IF name \in {<<"f","o","l","l","o","w","u","p">>, <<"p","o","s","t">>,
                      <<"f","o","l","l","o","w","u","p","1">>}
         THEN <<"0", "2">>
    ELSE IF name \in {<<"f","o","l","l","o","w","u","p","2">>, <<"p","o","s","t","2">>}
         THEN <<"0", "3">>
    ELSE IF name = <<"s","c","a","n","s">>
         THEN <<"0", "1">>
    ELSE IF d.kind = "dicom_dir"
         THEN zfill2(str(n + 1))
    ELSE << >>

\* The loop of find_sessions over the sorted entries, from the sessions `found` so far on.
RECURSIVE SessionsLoop(_, _)
SessionsLoop(entries, found) ==
    IF entries = << >> THEN found
    ELSE LET d == Head(entries)
             ses_id == SessionIdOf(d, Len(found))
         IN SessionsLoop(Tail(entries),
                IF ses_id = << >> THEN found
                ELSE Append(found, [ses_id |-> ses_id, path |-> d.name]))

\* find_sessions(subject_path): the (session id, path) pairs of the folder;
\* a folder with no session is itself the single session "01" (its path is
\* written << >>).
find_sessions(content) ==
    LET found == SessionsLoop(Sorted(content), << >>) IN
    IF found # << >> THEN found
    ELSE << [ses_id |-> <<"0", "1">>, path |-> << >>] >>

\* has_dicom_files(path): some .dcm file at or below the path
has_dicom_files(content, path) ==
    IF path = << >>
    THEN \E d \in content : d.kind \in {"dicom_dir", "dcm_file"}
    ELSE \E d \in content : d.name = path /\ d.kind = "dicom_dir"

\* ------------------------------------------------------ the scanned input

\* subject folders under the input root
MaxDirs == 3
\* directory entries below the subject folders, all folders together
MaxEntries == 3

N_001 == <<"0", "0", "1">>
N_002 == <<"0", "0", "2">>
N_sub001 == <<"s", "u", "b", "-", "0", "0", "1">>
N_sub == <<"s", "u", "b", "_">>

SubjectNames == {N_001, N_002, N_sub001, N_sub}

N_MRI1 == <<"M", "R", "I", "1">>
N_MRI2 == <<"M", "R", "I", "2">>
N_baseline == <<"b", "a", "s", "e", "l", "i", "n", "e">>
N_ses1 == <<"s", "e", "s", "-", "1">>
N_visit == <<"v", "i", "s", "i", "t">>
N_dcm == <<"a", ".", "d", "c", "m">>

Entries ==
    { [name |-> N_MRI1, kind |-> "dicom_dir"],
      [name |-> N_MRI2, kind |-> "dicom_dir"],
      [name |-> N_MRI2, kind |-> "empty_dir"],
      [name |-> N_baseline, kind |-> "dicom_dir"],
      [name |-> N_ses1, kind |-> "dicom_dir"],
      [name |-> N_visit, kind |-> "dicom_dir"],
      [name |-> N_dcm, kind |-> "dcm_file"] }

\* What a subject folder can hold: at most `budget` entries, no name twice.
FolderContents(budget) ==
    { S \in SUBSET Entries :
        /\ Cardinality(S) <= budget
        /\ \A d \in S : \A e \in S : d.name = e.name => d = e }

\* --subject values: the strings made of at most MaxPieces of these pieces
MaxPieces == 3

Pieces ==
    { <<"s","u","b","j","e","c","t">>, <<"S","u","b","j","e","c","t">>,
      <<"s","u","b">>, <<"S","U","B">>, <<"-">>, <<"_">>,
      <<"0","0","1">>, <<"7">> }

RECURSIVE RawIdsOf(_)
RawIdsOf(n) ==
    IF n = 0 THEN { << >> }
    ELSE RawIdsOf(n - 1) \cup { r \o q : r \in RawIdsOf(n - 1), q \in Pieces }

RawIds == RawIdsOf(MaxPieces) \ { << >> }

\* parser.parse_args(): neither option, --subject alone, or --subject with
\* --session (--session alone is the scan of the `else` branch as well).
ArgSets ==
    { [subject |-> << >>, session |-> << >>] }
    \cup { [subject |-> r, session |-> q] : r \in RawIds, q \in { << >>, <<"0", "1">> } }

InitBuild ==
    /\ args \in ArgSets
    /\ input_root = << >>
    /\ scan_pos = 1
    /\ sessions = << >>
    /\ tasks = << >>
    /\ subjects_tasks = << >>
    /\ build_pc = "list"

\* The number of directory entries in the subject folders listed so far.
RECURSIVE EntriesListed(_)
EntriesListed(folders) ==
    IF folders = << >> THEN 0
    ELSE Cardinality(Head(folders).content) + EntriesListed(Tail(folders))

\* find_subject_folders: root.iterdir() yields the next subject folder, in
\* the order the file system lists them (any order), with its content.
ListSubjectFolder ==
    /\ build_pc = "list"
    /\ args.subject = << >>
    /\ Len(input_root) < MaxDirs
    /\ \E nm \in SubjectNames :
         \E c \in FolderContents(MaxEntries - EntriesListed(input_root)) :
            /\ \A i \in 1..Len(input_root) : input_root[i].name # nm
            /\ input_root' = Append(input_root, [name |-> nm, content |-> c])
    /\ UNCHANGED <<scan_pos, sessions, tasks, subjects_tasks, build_pc>>
    /\ UNCHANGED <<args, orch_vars, gui_vars, lib_vars>>

\* find_subject_folders returns the list; the scan starts.
FoundSubjectFolders ==
    /\ build_pc = "list"
    /\ args.subject = << >>
    /\ build_pc' = "scan"
    /\ UNCHANGED <<input_root, scan_pos, sessions, tasks, subjects_tasks>>
    /\ UNCHANGED <<args, orch_vars, gui_vars, lib_vars>>

\* ------------------------------------------------- main, "Build task list"

\* The tasks appended for one subject folder: one per session that
\* has_dicom_files; task_num is not set yet (written -1).
NewTasks(sub_dir, sid, found) ==
    LET ok == SelectSeq(found,
                  LAMBDA s : has_dicom_files(sub_dir.content, s.path))
    IN [i \in 1..Len(ok) |->
           [sub_id |-> sid, ses_id |-> ok[i].ses_id,
            dicom_path |-> <<sub_dir.name, ok[i].path>>, task_num |-> -1]]

\* One iteration of `for sub_dir in find_subject_folders(input_root)`.
ScanSubject ==
    /\ build_pc = "scan"
    /\ scan_pos <= Len(input_root)
    /\ LET sub_dir == input_root[scan_pos]
           sid == sanitize_id(sub_dir.name)
           found == find_sessions(sub_dir.content)
       IN IF sid = << >>
          THEN UNCHANGED <<sessions, tasks>>
          ELSE /\ sessions' = found
               /\ tasks' = tasks \o NewTasks(sub_dir, sid, found)
    /\ scan_pos' = scan_pos + 1
    /\ UNCHANGED <<input_root, subjects_tasks, build_pc>>
    /\ UNCHANGED <<args, orch_vars, gui_vars, lib_vars>>

\* elif args.subject and args.session: one task on the input root itself.
BuildSessionTask ==
    /\ build_pc = "list"
    /\ args.subject # << >> /\ args.session # << >>
    /\ tasks' = << [sub_id |-> sanitize_id(args.subject), ses_id |-> args.session,
                    dicom_path |-> << << >>, << >> >>, task_num |-> -1] >>
    /\ build_pc' = "scan"
    /\ UNCHANGED <<input_root, scan_pos, sessions, subjects_tasks>>
    /\ UNCHANGED <<args, orch_vars, gui_vars, lib_vars>>

\* elif args.subject: the input root is the subject folder (holding c); one
\* task per session find_sessions returns.
BuildSubjectTasks ==
    /\ build_pc = "list"
    /\ args.subject # << >> /\ args.session = << >>
    /\ \E c \in FolderContents(MaxEntries) :
         \E sid \in { sanitize_id(args.subject) } :
         \E found \in { find_sessions(c) } :
            /\ sessions' = found
            /\ tasks' = [i \in 1..Len(found) |->
                            [sub_id |-> sid, ses_id |-> found[i].ses_id,
                             dicom_path |-> << << >>, found[i].path >>, task_num |-> -1]]
    /\ build_pc' = "scan"
    /\ UNCHANGED <<input_root, scan_pos, subjects_tasks>>
    /\ UNCHANGED <<args, orch_vars, gui_vars, lib_vars>>

\* if not tasks: "No subjects/sessions found to process."
BuildNoTasks ==
    /\ build_pc = "scan"
    /\ scan_pos > Len(input_root)
    /\ tasks = << >>
    /\ build_pc' = "no_tasks"
    /\ UNCHANGED <<input_root, scan_pos, sessions, tasks, subjects_tasks>>
    /\ UNCHANGED <<args, orch_vars, gui_vars, lib_vars>>

\* Group tasks by subject: the loop filling the OrderedDict, kept as the
\* sequence of its items [sub_id, tasks] in insertion order.
RECURSIVE GroupLoop(_, _)
GroupLoop(ts, groups) ==
    IF ts = << >> THEN groups
    ELSE LET task == Head(ts)
             known == \E g \in 1..Len(groups) : groups[g].sub_id = task.sub_id
             with_key == IF known THEN groups
                         ELSE Append(groups, [sub_id |-> task.sub_id, tasks |-> << >>])
         IN GroupLoop(Tail(ts),
                [g \in 1..Len(with_key) |->
                    IF with_key[g].sub_id = task.sub_id
                    THEN [with_key[g] EXCEPT !.tasks = Append(@, task)]
                    ELSE with_key[g]])

GroupTasks ==
    /\ build_pc = "scan"
    /\ scan_pos > Len(input_root)
    /\ tasks # << >>
    /\ subjects_tasks' = GroupLoop(tasks, << >>)
    /\ build_pc' = "grouped"
    /\ UNCHANGED <<input_root, scan_pos, sessions, tasks>>
    /\ UNCHANGED <<args, orch_vars, gui_vars, lib_vars>>

\* Add task numbers: task_num runs over the subjects of the OrderedDict and
\* over the tasks of each subject.
RECURSIVE NumberLoop(_, _)
NumberLoop(groups, num) ==
    IF groups = << >> THEN << >>
    ELSE LET g == Head(groups) IN
         << [g EXCEPT !.tasks =
                [i \in 1..Len(g.tasks) |-> [g.tasks[i] EXCEPT !.task_num = num + i - 1]]] >>
         \o NumberLoop(Tail(groups), num + Len(g.tasks))

\* The position of the task with this dicom_path in `tasks`.
PosInTasks(path) == CHOOSE i \in 1..Len(tasks) : tasks[i].dicom_path = path

\* Add task numbers, numbering the tasks in the order of `tasks` instead of
\* the order of the grouped dictionary.
AddTaskNumbersInListOrder ==
    /\ build_pc = "grouped"
    /\ subjects_tasks' =
          [g \in 1..Len(subjects_tasks) |->
              [subjects_tasks[g] EXCEPT !.tasks =
                  [i \in 1..Len(subjects_tasks[g].tasks) |->
                      [subjects_tasks[g].tasks[i] EXCEPT
                          !.task_num = PosInTasks(subjects_tasks[g].tasks[i].dicom_path) - 1]]]]
    /\ build_pc' = "numbered"
    /\ UNCHANGED <<input_root, scan_pos, sessions, tasks>>
    /\ UNCHANGED <<args, orch_vars, gui_vars, lib_vars>>

AddTaskNumbers ==
    /\ build_pc = "grouped"
    /\ subjects_tasks' = NumberLoop(subjects_tasks, 0)
    /\ build_pc' = "numbered"
    /\ UNCHANGED <<input_root, scan_pos, sessions, tasks>>
    /\ UNCHANGED <<args, orch_vars, gui_vars, lib_vars>>

\* all_tasks = [task for sub_tasks in subjects_tasks.values() for task in sub_tasks]
RECURSIVE Flatten(_)
Flatten(groups) ==
    IF groups = << >> THEN << >>
    ELSE Head(groups).tasks \o Flatten(Tail(groups))

AllTasks == Flatten(subjects_tasks)

NextBuild ==
    \/ ListSubjectFolder
    \/ FoundSubjectFolders
    \/ BuildSessionTask
    \/ BuildSubjectTasks
    \/ ScanSubject
    \/ BuildNoTasks
    \/ GroupTasks
    \/ AddTaskNumbers

InitBuildSpec == InitBuild /\ OrchOff /\ GuiOff /\ LibOff

SpecBuild == InitBuildSpec /\ [][NextBuild]_vars

\* =======================================================================
\* Properties of discovery and task building (checked under SpecBuild)
\* =======================================================================

C20_SessionIdsDistinct ==
    \A i \in 1..Len(sessions) : \A j \in 1..Len(sessions) :
        i # j => sessions[i].ses_id # sessions[j].ses_id

\* C21: every session find_sessions returned for a subject folder carries a
\* 2-digit zero-padded id (an id of all digits that zfill(2) leaves as it
\* is), and a folder without any session yields the single synthetic
\* session "01" bound to the folder itself.
C21_TwoDigitSessionIds ==
    /\ \A i \in 1..Len(sessions) :
          /\ AllDigits(sessions[i].ses_id)
          /\ sessions[i].ses_id = zfill2(sessions[i].ses_id)
    /\ \A i \in 1..Len(sessions) :
          sessions[i].path = << >> =>
              sessions = << [ses_id |-> <<"0", "1">>, path |-> << >>] >>

\* The prefixes sanitize_id knows.
IdPrefixes ==
    { <<"s","u","b","j","e","c","t","-">>, <<"s","u","b","j","e","c","t">>,
      <<"s","u","b","-">>, <<"s","u","b">> }

IsAlnum(c) == IsDigit(c) \/ IsUpper(c) \/ IsLower(c)

\* What is left of a raw id once its longest leading prefix (compared without
\* regard to case) is cut off and every non-alphanumeric character dropped.
StrippedId(raw) ==
    LET matching == { q \in IdPrefixes : StartsWith(Lower(raw), q) }
        longest == CHOOSE q \in matching : \A r \in matching : Len(r) <= Len(q)
    IN SelectSeq(IF matching = {} THEN raw ELSE Drop(raw, Len(longest)), IsAlnum)

\* C22: the subject id given to the tasks built from --subject is the raw
\* string with at most one leading prefix of {subject-, subject, sub-, sub}
\* stripped (the longest one, case-insensitively) and every non-alphanumeric
\* character removed; it is purely alphanumeric, and None (written << >>)
\* exactly when nothing remains. sub-001, Subject_7, subject-001 and ---
\* give 001, 7, 001 and None.
C22_SanitizeId ==
    args.subject # << >> =>
       \A i \in 1..Len(tasks) :
          /\ tasks[i].sub_id = StrippedId(args.subject)
          /\ \A k \in 1..Len(tasks[i].sub_id) : IsAlnum(tasks[i].sub_id[k])
          /\ args.subject = <<"s","u","b","-","0","0","1">>
                => tasks[i].sub_id = <<"0","0","1">>
          /\ args.subject = <<"S","u","b","j","e","c","t","_","7">>
                => tasks[i].sub_id = <<"7">>
          /\ args.subject = <<"s","u","b","j","e","c","t","-","0","0","1">>
                => tasks[i].sub_id = <<"0","0","1">>
          /\ args.subject = <<"-","-","-">> => tasks[i].sub_id = << >>

\* C22 witness: --subject Subject_7 was given and the task built from it has
\* the subject id 7.
C22_Witness ==
    /\ args.subject = <<"S","u","b","j","e","c","t","_","7">>
    /\ Len(tasks) > 0
    /\ tasks[1].sub_id = <<"7">>

\* C23: no task is ever created whose subject id is empty or None.
C23_NoTaskWithoutSubjectId ==
    \A i \in 1..Len(tasks) : tasks[i].sub_id # << >>

\* =======================================================================
\* Conversion: classifying and organizing the scans of one session
\* (src/src/bids/converter.py)
\* =======================================================================

\* x in s, for two strings
Contains(s, x) ==
    \E i \in 1..(Len(s) - Len(x) + 1) : SubSeq(s, i, i + Len(x) - 1) = x

\* any(x in s for x in xs)
ContainsAny(s, xs) == \E x \in xs : Contains(s, x)

IsLetter(c) == IsUpper(c) \/ IsLower(c)

\* The longest run of letters of s that starts at position i.
RECURSIVE LettersFrom(_, _)
LettersFrom(s, i) ==
    IF i > Len(s) \/ ~IsLetter(s[i]) THEN << >>
    ELSE <<s[i]>> \o LettersFrom(s, i + 1)

\* re.search(r'task[_-]([a-zA-Z]+)', s): group 1 of the leftmost match, or
\* << >> when there is none.
TaskMatch(s) ==
    LET starts == { i \in 1..Len(s) :
                      /\ i + 5 <= Len(s)
                      /\ SubSeq(s, i, i + 3) = <<"t","a","s","k">>
                      /\ s[i + 4] \in {"_", "-"}
                      /\ IsLetter(s[i + 5]) }
    IN IF starts = {} THEN << >>
       ELSE LettersFrom(s, (CHOOSE i \in starts : \A k \in starts : i <= k) + 5)

\* re.search(r'[-_]([a-zA-Z]+)\d*$', s): group 1, or << >> when there is no
\* match: after some separator come letters, then digits up to the end.
TrailingWord(s) ==
    LET starts == { i \in 1..Len(s) :
                      /\ s[i] \in {"_", "-"}
                      /\ LettersFrom(s, i + 1) # << >>
                      /\ \A k \in (i + 1 + Len(LettersFrom(s, i + 1)))..Len(s) :
                            IsDigit(s[k]) }
    IN IF starts = {} THEN << >>
       ELSE LettersFrom(s, (CHOOSE i \in starts : \A k \in starts : i <= k) + 1)

\* The task name _classify_scan gives a functional scan.
TaskOf(series_desc) ==
    IF TaskMatch(series_desc) # << >> THEN Lower(TaskMatch(series_desc))
    ELSE IF Contains(series_desc, <<"r","e","s","t">>) THEN <<"r","e","s","t">>
    ELSE IF Contains(series_desc, <<"m","e","m","o","r","y">>) THEN <<"m","e","m","o","r","y">>
    ELSE IF Contains(series_desc, <<"m","o","v","i","e">>) THEN <<"m","o","v","i","e">>
    ELSE IF Contains(series_desc, <<"m","u","s","i","c">>) THEN <<"m","u","s","i","c">>
    ELSE IF Contains(series_desc, <<"s","t","o","r","y">>) THEN <<"s","t","o","r","y">>
    ELSE IF Contains(series_desc, <<"s","o","u","n","d">>) THEN <<"s","o","u","n","d">>
    ELSE IF Contains(series_desc, <<"f","a","c","e","s">>) THEN <<"f","a","c","e","s">>
    ELSE IF Contains(series_desc, <<"m","o","t","o","r">>) THEN <<"m","o","t","o","r">>
    ELSE IF Contains(series_desc, <<"n","f">>) \/ Contains(series_desc, <<"n","e","u","r","o","f","e","e","d","b","a","c","k">>)
         THEN <<"n","f">>
    ELSE IF Contains(series_desc, <<"w","o","r","d">>) THEN <<"w","o","r","d","p","a","i","r","s">>
    ELSE IF TrailingWord(series_desc) # << >> THEN Lower(TrailingWord(series_desc))
    ELSE <<"u","n","k","n","o","w","n">>

\* _classify_scan returning None
Unrecognized == [datatype |-> "None", suffix |-> "None", entities |-> << >>]

\* _classify_scan(metadata, series_desc): (datatype, suffix, custom_entities)
_classify_scan(metadata, series_desc) ==
    LET is_functional ==
            \/ ContainsAny(series_desc, {<<"b","o","l","d">>, <<"f","m","r","i">>, <<"m","b","e","p","i">>})
            \/ StartsWith(series_desc, <<"f","u","n","c">>)
            \/ /\ Contains(series_desc, <<"e","p","i">>)
               /\ ~Contains(series_desc, <<"s","e","_","e","p","i">>)
               /\ ~Contains(series_desc, <<"s","e","e","p","i">>)
               /\ ~Contains(series_desc, <<"s","p","i","n","e","c","h","o">>)
        phase_dir == metadata.PhaseEncodingDirection
    IN
    IF is_functional
    THEN [datatype |-> "func", suffix |-> "bold",
          entities |-> <<"t","a","s","k","-">> \o TaskOf(series_desc)]
    ELSE IF ContainsAny(series_desc, {<<"t","1","w">>, <<"t","1","_">>, <<"m","p","r","a","g","e">>, <<"s","p","g","r">>,
                                      <<"b","r","a","v","o">>, <<"t","f","l">>})
    THEN [datatype |-> "anat", suffix |-> "T1w", entities |-> << >>]
    ELSE IF ContainsAny(series_desc, {<<"t","2","w">>, <<"t","2","_">>, <<"t","2","s","p","a","c","e">>, <<"t","s","e">>, <<"f","s","e">>})
    THEN [datatype |-> "anat", suffix |-> "T2w", entities |-> << >>]
    ELSE IF Contains(series_desc, <<"f","l","a","i","r">>) \/ Contains(series_desc, <<"d","a","r","k","_","f","l","u","i","d">>)
    THEN [datatype |-> "anat", suffix |-> "FLAIR", entities |-> << >>]
    ELSE IF ContainsAny(series_desc, {<<"a","p">>, <<"p","a">>, <<"s","e","_","e","p","i">>, <<"s","p","i","n","e","c","h","o">>,
                                      <<"t","o","p","u","p">>, <<"d","i","s","t","o","r","t","i","o","n">>})
    THEN IF Contains(phase_dir, <<"j","-">>) \/ Contains(series_desc, <<"a","p">>)
         THEN [datatype |-> "fmap", suffix |-> "epi", entities |-> <<"d","i","r","-","A","P">>]
         ELSE IF Contains(phase_dir, <<"j">>) \/ Contains(series_desc, <<"p","a">>)
         THEN [datatype |-> "fmap", suffix |-> "epi", entities |-> <<"d","i","r","-","P","A">>]
         ELSE [datatype |-> "fmap", suffix |-> "epi", entities |-> << >>]
    ELSE IF Contains(series_desc, <<"f","i","e","l","d","m","a","p">>) \/ Contains(series_desc, <<"g","r","e","_","f","i","e","l","d">>)
    THEN [datatype |-> "fmap", suffix |-> "phasediff", entities |-> << >>]
    ELSE IF ContainsAny(series_desc, {<<"d","w","i">>, <<"d","t","i">>, <<"d","i","f","f","u","s","i","o","n">>, <<"h","a","r","d","i">>})
    THEN [datatype |-> "dwi", suffix |-> "dwi", entities |-> << >>]
    ELSE IF ContainsAny(series_desc, {<<"a","s","l">>, <<"p","c","a","s","l">>, <<"p","a","s","l">>})
    THEN [datatype |-> "perf", suffix |-> "asl", entities |-> << >>]
    ELSE IF metadata.ImageType \cap {"FMRI", "BOLD"} # {}
    THEN [datatype |-> "func", suffix |-> "bold", entities |-> <<"t","a","s","k","-","u","n","k","n","o","w","n">>]
    ELSE Unrecognized

\* ---------------------------------------------------- _organize_to_bids

\* JSON sidecars in the temporary folder of one conversion
MaxScans == 3

\* The sidecars dcm2niix can leave behind: the metadata, whether the NIfTI
\* file of the sidecar exists, whether the JSON can be read.
Scan(desc, phase_dir, image_type, nii, json_ok) ==
    [metadata |-> [SeriesDescription |-> desc, PhaseEncodingDirection |-> phase_dir,
                   ImageType |-> image_type],
     nii |-> nii, json_ok |-> json_ok]

Scans ==
    { Scan(<<"A","X","I","A","L"," ","T","1"," ","M","P","R","A","G","E">>, << >>, {"ORIGINAL"}, TRUE, TRUE),
      Scan(<<"B","O","L","D","_","t","a","s","k","-","r","e","s","t","_","r","u","n","1">>, <<"j","-">>, {"ORIGINAL"}, TRUE, TRUE),
      Scan(<<"B","O","L","D","_","t","a","s","k","-","r","e","s","t","_","r","u","n","2">>, <<"j","-">>, {"ORIGINAL"}, TRUE, TRUE),
      Scan(<<"B","O","L","D","_","t","a","s","k","-","r","e","s","t","_","r","u","n","2">>, <<"j","-">>, {"ORIGINAL"}, FALSE, TRUE),
      Scan(<<"f","M","R","I","_","m","e","m","o","r","y">>, << >>, {"ORIGINAL"}, TRUE, TRUE),
      Scan(<<"f","M","R","I","_","m","e","m","o","r","y">>, << >>, {"ORIGINAL"}, TRUE, FALSE),
      Scan(<<"f","u","n","c","_","x","2">>, << >>, {"ORIGINAL"}, TRUE, TRUE),
      Scan(<<"l","o","c","a","l","i","z","e","r","_","3","p","l","a","n","e">>, << >>, {"ORIGINAL"}, TRUE, TRUE),
      Scan(<<"l","o","c","a","l","i","z","e","r","_","e","p","i">>, << >>, {"ORIGINAL"}, TRUE, TRUE),
      Scan(<<"T","2","_","F","L","A","I","R">>, << >>, {"ORIGINAL"}, TRUE, TRUE),
      Scan(<<"d","w","i","_","a","p">>, << >>, {"ORIGINAL"}, TRUE, TRUE),
      Scan(<<"s","e","_","e","p","i">>, <<"j">>, {"ORIGINAL"}, TRUE, TRUE),
      Scan(<<"g","r","e","_","f","i","e","l","d">>, << >>, {"ORIGINAL"}, TRUE, TRUE),
      Scan(<<"p","c","a","s","l">>, << >>, {"ORIGINAL"}, TRUE, TRUE),
      Scan(<< >>, << >>, {"ORIGINAL", "FMRI"}, TRUE, TRUE) }

InitConv ==
    /\ json_seen = 0
    /\ run_counters = << >>
    /\ organized = << >>
    /\ skipped_count = 0
    /\ conv_pc = "loop"

\* run_counters.get(task_key, 0)
CounterOf(counters, task_key) ==
    IF task_key \in DOMAIN counters THEN counters[task_key] ELSE 0

\* One iteration of `for json_file in json_files` that numbers the runs with
\* one counter for all task labels.
OrganizeFileOneCounter ==
    /\ conv_pc = "loop"
    /\ json_seen < MaxScans
    /\ json_seen' = json_seen + 1
    /\ \E json_file \in Scans :
         \E series_desc \in { Lower(json_file.metadata.SeriesDescription) } :
         \E modality_info \in { _classify_scan(json_file.metadata, series_desc) } :
            IF ~json_file.nii \/ ~json_file.json_ok
            THEN UNCHANGED <<run_counters, organized, skipped_count>>
            ELSE IF modality_info = Unrecognized
            THEN /\ skipped_count' = skipped_count + 1
                 /\ UNCHANGED <<run_counters, organized>>
            ELSE IF modality_info.datatype = "func"
                    /\ Contains(modality_info.entities, <<"t","a","s","k","-">>)
            THEN LET task_key == <<"f","u","n","c","_">>
                     run_num == CounterOf(run_counters, task_key) + 1
                 IN /\ run_counters' =
                          [k \in DOMAIN run_counters \cup {task_key} |->
                              IF k = task_key THEN run_num ELSE run_counters[k]]
                    /\ organized' = Append(organized,
                          [desc |-> series_desc, datatype |-> modality_info.datatype,
                           suffix |-> modality_info.suffix,
                           entities |-> modality_info.entities \o <<"_","r","u","n","-">>
                                           \o zfill2(str(run_num))])
                    /\ UNCHANGED skipped_count
            ELSE /\ organized' = Append(organized,
                          [desc |-> series_desc, datatype |-> modality_info.datatype,
                           suffix |-> modality_info.suffix,
                           entities |-> modality_info.entities])
                 /\ UNCHANGED <<run_counters, skipped_count>>
    /\ UNCHANGED conv_pc
    /\ UNCHANGED <<orch_vars, gui_vars, build_vars, report_vars, prog_vars, start_vars, fo_vars>>

\* One iteration of `for json_file in json_files`: the next sidecar in sorted
\* order is skipped, counted as unrecognized, or organized under its BIDS
\* name; a functional scan takes the next run number of its task.
OrganizeFile ==
    /\ conv_pc = "loop"
    /\ json_seen < MaxScans
    /\ json_seen' = json_seen + 1
    /\ \E json_file \in Scans :
         \E series_desc \in { Lower(json_file.metadata.SeriesDescription) } :
         \E modality_info \in { _classify_scan(json_file.metadata, series_desc) } :
            IF ~json_file.nii \/ ~json_file.json_ok
            THEN UNCHANGED <<run_counters, organized, skipped_count>>
            ELSE IF modality_info = Unrecognized
            THEN /\ skipped_count' = skipped_count + 1
                 /\ UNCHANGED <<run_counters, organized>>
            ELSE IF modality_info.datatype = "func"
                    /\ Contains(modality_info.entities, <<"t","a","s","k","-">>)
            THEN LET task_key == <<"f","u","n","c","_">> \o modality_info.entities
                     run_num == CounterOf(run_counters, task_key) + 1
                 IN /\ run_counters' =
                          [k \in DOMAIN run_counters \cup {task_key} |->
                              IF k = task_key THEN run_num ELSE run_counters[k]]
                    /\ organized' = Append(organized,
                          [desc |-> series_desc, datatype |-> modality_info.datatype,
                           suffix |-> modality_info.suffix,
                           entities |-> modality_info.entities \o <<"_","r","u","n","-">>
                                           \o zfill2(str(run_num))])
                    /\ UNCHANGED skipped_count
            ELSE /\ organized' = Append(organized,
                          [desc |-> series_desc, datatype |-> modality_info.datatype,
                           suffix |-> modality_info.suffix,
                           entities |-> modality_info.entities])
                 /\ UNCHANGED <<run_counters, skipped_count>>
    /\ UNCHANGED conv_pc
    /\ UNCHANGED <<orch_vars, gui_vars, build_vars, report_vars, prog_vars, start_vars, fo_vars>>

\* The loop is over: the warning about skipped scans, return organized_count.
OrganizeReturn ==
    /\ conv_pc = "loop"
    /\ conv_pc' = "returned"
    /\ UNCHANGED <<json_seen, run_counters, organized, skipped_count>>
    /\ UNCHANGED <<orch_vars, gui_vars, build_vars, report_vars, prog_vars, start_vars, fo_vars>>

NextConv ==
    \/ OrganizeFile
    \/ OrganizeReturn

InitConvSpec == InitConv /\ OrchOff /\ GuiOff /\ BuildOff /\ ReportOff /\ ProgOff /\ StartOff /\ FoOff

SpecConv == InitConvSpec /\ [][NextConv]_vars

\* -------------------------------------------- properties of the conversion

\* The task label of an organized functional scan: its entities up to "_run-".
TaskLabelOf(entities) ==
    LET cut == CHOOSE i \in 1..(Len(entities) - 4) : SubSeq(entities, i, i + 4) = <<"_","r","u","n","-">>
    IN SubSeq(entities, 1, cut - 1)

\* The organized functional scans, in encounter order.
Functional == SelectSeq(organized, LAMBDA o : o.datatype = "func")

\* C24: a scan whose lower-cased description holds an exclusion keyword
\* (localizer, scout, survey) is skipped, whatever else the description
\* holds: the exclusion rule is the first of the documented order.
C24_ExclusionComesFirst ==
    \A i \in 1..Len(organized) :
        ~ContainsAny(organized[i].desc, {<<"l","o","c","a","l","i","z","e","r">>, <<"s","c","o","u","t">>, <<"s","u","r","v","e","y">>})

\* C25: within one conversion, the k-th functional scan of a task label, in
\* encounter order, has the run index k written with two digits: the N scans
\* of the label carry exactly 01..N, no gap, none twice; and the label's
\* counter stands at N.
C25_RunIndices ==
    \A i \in 1..Len(Functional) :
        LET label == TaskLabelOf(Functional[i].entities)
            k == Cardinality({ j \in 1..i :
                     TaskLabelOf(Functional[j].entities) = label })
            N == Cardinality({ j \in 1..Len(Functional) :
                     TaskLabelOf(Functional[j].entities) = label })
        IN /\ Functional[i].entities = label \o <<"_","r","u","n","-">> \o zfill2(str(k))
           /\ CounterOf(run_counters, <<"f","u","n","c","_">> \o label) = N

\* C25 witness: two scans of task rest and one of task memory were organized;
\* they carry rest 01, memory 01, rest 02 in that order.
C25_Witness ==
    /\ Len(Functional) = 3
    /\ Functional[1].entities = <<"t","a","s","k","-","r","e","s","t","_","r","u","n","-","0","1">>
    /\ Functional[2].entities = <<"t","a","s","k","-","m","e","m","o","r","y","_","r","u","n","-","0","1">>
    /\ Functional[3].entities = <<"t","a","s","k","-","r","e","s","t","_","r","u","n","-","0","2">>

\* =======================================================================
\* The report (src/src/reporting/report.py)
\* =======================================================================

\* The error strings run_bids_conversion hands to add_failure: dcm2niix
\* exited non-zero (its stderr, or "dcm2niix failed" without stderr),
\* nothing was organized, the timeout, dcm2niix missing; and a long message
\* no entry of the table matches.
ErrNonZero == <<"d","c","m","2","n","i","i","x"," ","f","a","i","l","e","d">>

ErrStderr == <<"E","r","r","o","r",":"," ","p","e","r","m","i","s","s","i","o","n"," ","d","e","n","i","e","d">>

ErrTimeout == <<"C","o","n","v","e","r","s","i","o","n"," ","t","i","m","e","d"," ","o","u","t"," ","a","f","t","e","r"," ","3","0"," ","m","i","n","u","t","e","s">>

ErrToolNotFound == <<"d","c","m","2","n","i","i","x"," ","n","o","t"," ","f","o","u","n","d","."," ","P","l","e","a","s","e"," ","e","n","s","u","r","e"," ","d","c","m","2","n","i","i","x"," ","i","s"," ","i","n","s","t","a","l","l","e","d"," ","a","n","d"," ","i","n"," ","P","A","T","H">>

LongErrorLen == 101

ErrLong == [i \in 1..LongErrorLen |-> "x"]

ConverterErrors == { ErrNonZero, ErrStderr, ErrTimeout, ErrToolNotFound, ErrLong }

\* What a thread can be calling.
Calls ==
    { [kind |-> k, error |-> << >>] : k \in {"add_success", "add_skipped", "add_warning"} }
    \cup { [kind |-> "add_failure", error |-> e] : e \in ConverterErrors }

InitReport ==
    /\ report_lock = 0
    /\ call = [c \in Callers |-> NoCall]
    /\ report_successful = << >>
    /\ report_failed = << >>
    /\ report_skipped = << >>
    /\ report_warnings = << >>
    /\ report_text = [status |-> "", success_count |-> 0, fail_count |-> 0,
                      went_wrong |-> << >>]

\* A worker thread enters one of add_success, add_failure, add_skipped,
\* add_warning.
ReportCall(c) ==
    /\ call[c].pc = "idle"
    /\ report_text.status = ""
    /\ \E k \in Calls :
         call' = [call EXCEPT ![c] = [kind |-> k.kind, error |-> k.error, pc |-> "lock"]]
    /\ UNCHANGED <<report_lock, report_successful, report_failed, report_skipped,
                   report_warnings, report_text>>
    /\ UNCHANGED <<orch_vars, gui_vars, build_vars, conv_vars, prog_vars, start_vars, fo_vars>>

\* with self._lock: the lock is taken when it is free
LockAcquire(c) ==
    /\ call[c].pc = "lock"
    /\ report_lock = 0
    /\ report_lock' = c
    /\ call' = [call EXCEPT ![c].pc = "append"]
    /\ UNCHANGED <<report_successful, report_failed, report_skipped,
                   report_warnings, report_text>>
    /\ UNCHANGED <<orch_vars, gui_vars, build_vars, conv_vars, prog_vars, start_vars, fo_vars>>

\* The append that puts the new entry in place of the list.
ListAppendOverwrites(c) ==
    /\ call[c].pc = "append"
    /\ report_lock = c
    /\ report_successful' =
          IF call[c].kind = "add_success"
          THEN << [sub_id |-> c, ses_id |-> <<"0","1">>] >>
          ELSE report_successful
    /\ report_failed' =
          IF call[c].kind = "add_failure"
          THEN << [sub_id |-> c, ses_id |-> <<"0","1">>, error |-> call[c].error,
                   stage |-> "BIDS Conversion"] >>
          ELSE report_failed
    /\ report_skipped' =
          IF call[c].kind = "add_skipped"
          THEN << [sub_id |-> c, ses_id |-> <<"0","1">>] >>
          ELSE report_skipped
    /\ report_warnings' =
          IF call[c].kind = "add_warning"
          THEN << c >>
          ELSE report_warnings
    /\ call' = [call EXCEPT ![c].pc = "unlock"]
    /\ UNCHANGED <<report_lock, report_text>>
    /\ UNCHANGED <<orch_vars, gui_vars, build_vars, conv_vars, prog_vars, start_vars, fo_vars>>

\* self.<list>.append(...), holding the lock
ListAppend(c) ==
    /\ call[c].pc = "append"
    /\ report_lock = c
    /\ report_successful' =
          IF call[c].kind = "add_success"
          THEN Append(report_successful, [sub_id |-> c, ses_id |-> <<"0","1">>])
          ELSE report_successful
    /\ report_failed' =
          IF call[c].kind = "add_failure"
          THEN Append(report_failed,
                   [sub_id |-> c, ses_id |-> <<"0","1">>, error |-> call[c].error,
                    stage |-> "BIDS Conversion"])
          ELSE report_failed
    /\ report_skipped' =
          IF call[c].kind = "add_skipped"
          THEN Append(report_skipped, [sub_id |-> c, ses_id |-> <<"0","1">>])
          ELSE report_skipped
    /\ report_warnings' =
          IF call[c].kind = "add_warning"
          THEN Append(report_warnings, c)
          ELSE report_warnings
    /\ call' = [call EXCEPT ![c].pc = "unlock"]
    /\ UNCHANGED <<report_lock, report_text>>
    /\ UNCHANGED <<orch_vars, gui_vars, build_vars, conv_vars, prog_vars, start_vars, fo_vars>>

\* Leaving the with block releases the lock; the method returns.
LockRelease(c) ==
    /\ call[c].pc = "unlock"
    /\ report_lock = c
    /\ report_lock' = 0
    /\ call' = [call EXCEPT ![c].pc = "returned"]
    /\ UNCHANGED <<report_successful, report_failed, report_skipped,
                   report_warnings, report_text>>
    /\ UNCHANGED <<orch_vars, gui_vars, build_vars, conv_vars, prog_vars, start_vars, fo_vars>>

\* error[:100] keeps this many characters
TruncateAt == 100

\* _simplify_error(error): the text of the first matching known cause, else
\* the error itself, cut after 100 characters when it is longer. `known` is
\* the fixed text, `raw` what is shown of the error.
_simplify_error(error) ==
    LET error_lower == Lower(error)
        Known(text) == [known |-> text, raw |-> << >>]
    IN
    IF Contains(error_lower, <<"n","o"," ","s","u","c","h"," ","f","i","l","e">>) \/ Contains(error_lower, <<"n","o","t"," ","f","o","u","n","d">>)
    THEN Known("The input files could not be found. Please check if the DICOM folder exists.")
    ELSE IF Contains(error_lower, <<"p","e","r","m","i","s","s","i","o","n"," ","d","e","n","i","e","d">>)
    THEN Known("The program doesn't have permission to access these files. Check folder permissions.")
    ELSE IF Contains(error_lower, <<"t","i","m","e","o","u","t">>)
    THEN Known("The conversion took too long (over 30 minutes). The data might be very large or there may be an issue.")
    ELSE IF Contains(error_lower, <<"n","o"," ","d","i","c","o","m">>) \/ Contains(error_lower, <<"n","o"," ","v","a","l","i","d">>)
    THEN Known("No valid DICOM files were found in this folder.")
    ELSE IF Contains(error_lower, <<"d","i","s","k">>) \/ Contains(error_lower, <<"s","p","a","c","e">>)
    THEN Known("Not enough disk space to complete the conversion.")
    ELSE IF Contains(error_lower, <<"m","e","m","o","r","y">>)
    THEN Known("Not enough computer memory (RAM) available.")
    ELSE IF Contains(error_lower, <<"d","c","m","2","n","i","i","x">>)
    THEN Known("The DICOM to NIfTI converter encountered an issue. The scan may be incomplete or corrupted.")
    ELSE IF Len(error) > TruncateAt
    THEN [known |-> "", raw |-> SubSeq(error, 1, TruncateAt) \o <<".",".","."," ","(","s","e","e"," ","d","e","t","a","i","l","e","d"," ","e","r","r","o","r"," ","b","e","l","o","w",")">>]
    ELSE [known |-> "", raw |-> error]

\* sorted(self.failed, key=lambda x: (x['sub_id'], x['ses_id']))
RECURSIVE SortedFailed(_)
SortedFailed(items) ==
    IF items = << >> THEN << >>
    ELSE LET m == CHOOSE i \in 1..Len(items) :
                     \A j \in 1..Len(items) :
                         \/ items[i].sub_id < items[j].sub_id
                         \/ items[i].sub_id = items[j].sub_id /\ i <= j
         IN <<items[m]>> \o
            SortedFailed([k \in 1..(Len(items) - 1) |->
                             IF k < m THEN items[k] ELSE items[k + 1]])

\* A status box that looks at the failures first.
StatusBoxFailuresFirst(success_count, fail_count) ==
    IF fail_count > 0 THEN "CONVERSION FAILED"
    ELSE IF success_count > 0 THEN "SUCCESS!"
    ELSE "NO DATA PROCESSED"

\* The status box of generate_report for these counts.
StatusBox(success_count, fail_count) ==
    IF fail_count = 0 /\ success_count > 0 THEN "SUCCESS!"
    ELSE IF fail_count > 0 /\ success_count > 0 THEN "PARTIAL SUCCESS"
    ELSE IF fail_count > 0 /\ success_count = 0 THEN "CONVERSION FAILED"
    ELSE "NO DATA PROCESSED"

\* generate_report(), called by main once the pool is closed: the status
\* box, the counts, and what went wrong for each failure.
GenerateReport ==
    /\ report_text.status = ""
    /\ \A c \in Callers : call[c].pc \in {"idle", "returned"}
    /\ \E went \in { [i \in 1..Len(report_failed) |->
                        _simplify_error(SortedFailed(report_failed)[i].error)] } :
         report_text' =
            [status |-> StatusBox(Len(report_successful), Len(report_failed)),
             success_count |-> Len(report_successful),
             fail_count |-> Len(report_failed),
             went_wrong |-> went]
    /\ UNCHANGED <<report_lock, call, report_successful, report_failed,
                   report_skipped, report_warnings>>
    /\ UNCHANGED <<orch_vars, gui_vars, build_vars, conv_vars, prog_vars, start_vars, fo_vars>>

NextReport ==
    \/ \E c \in Callers : ReportCall(c)
    \/ \E c \in Callers : LockAcquire(c)
    \/ \E c \in Callers : ListAppend(c)
    \/ \E c \in Callers : LockRelease(c)
    \/ GenerateReport

InitReportSpec == InitReport /\ OrchOff /\ GuiOff /\ BuildOff /\ ConvOff /\ ProgOff /\ StartOff /\ FoOff

SpecReport == InitReportSpec /\ [][NextReport]_vars

\* --------------------------------------------------- properties of the report

\* C26: the status of the generated report is full success when there is no
\* failure and some success, partial success when there are both, total
\* failure when there are failures and no success, nothing processed
\* otherwise, and the counts shown are the numbers of recorded outcomes.
C26_StatusFromCounts ==
    report_text.status # "" =>
       LET s == Len(report_successful)
           f == Len(report_failed)
       IN /\ report_text.success_count = s
          /\ report_text.fail_count = f
          /\ (f = 0 /\ s > 0) <=> report_text.status = "SUCCESS!"
          /\ (f > 0 /\ s > 0) <=> report_text.status = "PARTIAL SUCCESS"
          /\ (f > 0 /\ s = 0) <=> report_text.status = "CONVERSION FAILED"
          /\ (f = 0 /\ s = 0) <=> report_text.status = "NO DATA PROCESSED"

\* C26 witness: of three tasks two recorded a success and one a failure;
\* the report shows success=2, failure=1 and partial success.
C26_Witness ==
    /\ \A c \in 1..3 : call[c].pc = "returned"
    /\ report_text.status = "PARTIAL SUCCESS"
    /\ report_text.success_count = 2
    /\ report_text.fail_count = 1

\* The fixed texts of the causes.
TimeoutText ==
    "The conversion took too long (over 30 minutes). The data might be very large or there may be an issue."

MissingFilesText ==
    "The input files could not be found. Please check if the DICOM folder exists."

\* C27: a failure of the converter's timeout class is explained by the
\* timeout cause, and a failure of its tool-not-found class is not explained
\* as missing input files.
C27_OwnCause ==
    report_text.status # "" =>
       \A i \in 1..Len(report_text.went_wrong) :
          LET error == SortedFailed(report_failed)[i].error IN
          /\ error = ErrTimeout => report_text.went_wrong[i].known = TimeoutText
          /\ error = ErrToolNotFound
                => report_text.went_wrong[i].known # MissingFilesText

\* What the calls that have appended were given, per list.
Appended(kind) == { c \in Callers : call[c].kind = kind /\ call[c].pc \in {"unlock", "returned"} }

SubIds(list) == { list[i].sub_id : i \in 1..Len(list) }

IsPrefix(s, t) == Len(s) <= Len(t) /\ SubSeq(t, 1, Len(s)) = s

\* C29: under every interleaving of the calling threads each list holds
\* exactly one entry per call that has appended (none lost, none twice), a
\* failure entry carries the error of its call, at most one thread holds the
\* lock and only that thread appends; and every step leaves the entries
\* already in a list in place, unchanged.
C29_ThreadSafeAppendOnly ==
    /\ [](/\ Len(report_successful) = Cardinality(Appended("add_success"))
          /\ SubIds(report_successful) = Appended("add_success")
          /\ Len(report_failed) = Cardinality(Appended("add_failure"))
          /\ SubIds(report_failed) = Appended("add_failure")
          /\ \A i \in 1..Len(report_failed) :
                report_failed[i].error = call[report_failed[i].sub_id].error
          /\ Len(report_skipped) = Cardinality(Appended("add_skipped"))
          /\ SubIds(report_skipped) = Appended("add_skipped")
          /\ Len(report_warnings) = Cardinality(Appended("add_warning"))
          /\ { report_warnings[i] : i \in 1..Len(report_warnings) } = Appended("add_warning")
          /\ \A c \in Callers : call[c].pc \in {"append", "unlock"} <=> report_lock = c)
    /\ [][/\ IsPrefix(report_successful, report_successful')
          /\ IsPrefix(report_failed, report_failed')
          /\ IsPrefix(report_skipped, report_skipped')
          /\ IsPrefix(report_warnings, report_warnings')]_vars

\* C29 witness: three threads called add_success, add_failure and
\* add_warning, all three have returned, and each list holds the one entry.
C29_Witness ==
    /\ \A c \in Callers : call[c].pc = "returned"
    /\ Len(report_successful) = 1
    /\ Len(report_failed) = 1
    /\ Len(report_warnings) = 1


\* ---------------------------------------------------------------------
\* process_single_task: order of a task's events
\* ---------------------------------------------------------------------

\* The task has an enabled stage that has not ended yet: its conversion
\* (with the descriptor block that belongs to it) or its preprocessing.
StageNotEnded(t) ==
    \/ pc[t] \in {"conv", "desc_is_set", "desc_exists", "desc_write", "desc_set"}
    \/ pc[t] \in {"prep", "prepping"}

\* C28: for every task the completed count is incremented, and its
\* "task completed" marker published, only after all of the task's enabled
\* stages (conversion, then preprocessing) have ended: a task that has
\* taken its increment has started and has no enabled stage left to end.
C28_CompletedAfterAllStages ==
    \A t \in Tasks :
        count[t] # 0 =>
            /\ Started(t)
            /\ ~StageNotEnded(t)


\* =====================================================================
\* App progress bar (src/src/gui/app.py) fed by the pipeline's markers
\* =====================================================================

MaxProgTasks == 2
MaxProgWorkers == 2

\* Progress values are floats in [0, 1]; the model keeps them as integers
\* in units of 1/Unit, so that every (n + 0.95) / total is exact.
Unit == 6000

\* 0.95: the part of a task's share the bar may fill before the task ends
NearlyDone == 95

\* remaining * 0.02
EaseDivisor == 50

\* max(0.001, ...)
MinStep == Unit \div 1000

Max(a, b) == IF a > b THEN a ELSE b

\* hundredths / 100 / total, in 1/Unit
Share(hundredths, total) == (hundredths * (Unit \div 100)) \div total

ProgTasks == 1..proc_total

\* The worker threads inside process_single_task.
ProgInFlight == { t \in ProgTasks : worker[t] \in {"started", "counted", "published"} }

\* App after the start of a run (the progress variables reset to zero) and
\* the pipeline process just launched.
InitProgress ==
    /\ proc_total \in 1..MaxProgTasks
    /\ proc_workers \in 1..MaxProgWorkers
    /\ proc_workers <= proc_total
    /\ proc_pc = "start"
    /\ worker = [t \in 1..proc_total |-> "queued"]
    /\ tracker = 0
    /\ held = [t \in 1..proc_total |-> 0]
    /\ stdout = << >>
    /\ read_pos = 0
    /\ app_total_tasks = 0
    /\ app_completed_tasks = 0
    /\ current_progress = 0
    /\ target_progress = 0
    /\ task_in_progress = FALSE
    /\ progress_animation_id = FALSE
    /\ progress_bar = 0
    /\ after_sets = << >>

\* safe_print(f"[PROGRESS:TOTAL:{total_tasks}]")
PrintTotal ==
    /\ proc_pc = "start"
    /\ stdout' = Append(stdout, <<"TOTAL", proc_total>>)
    /\ proc_pc' = "pool"
    /\ UNCHANGED <<proc_total, proc_workers, worker, tracker, held>>
    /\ UNCHANGED <<read_pos, app_total_tasks, app_completed_tasks, current_progress,
                   target_progress, task_in_progress, progress_animation_id,
                   progress_bar, after_sets>>
    /\ UNCHANGED <<orch_vars, gui_vars, build_vars, conv_vars, report_vars, start_vars, fo_vars>>

\* A pool thread takes the next submitted task; process_single_task begins
\* with progress_tracker.task_start(task_num):
\*     safe_print(f"[PROGRESS:TASK_START:{task_num}]")
TrackerTaskStart(t) ==
    /\ proc_pc = "pool"
    /\ worker[t] = "queued"
    /\ \A u \in ProgTasks : u < t => worker[u] # "queued"
    /\ Cardinality(ProgInFlight) < proc_workers
    /\ stdout' = Append(stdout, <<"TASK_START", t - 1>>)
    /\ worker' = [worker EXCEPT ![t] = "started"]
    /\ UNCHANGED <<proc_total, proc_workers, proc_pc, tracker, held>>
    /\ UNCHANGED <<read_pos, app_total_tasks, app_completed_tasks, current_progress,
                   target_progress, task_in_progress, progress_animation_id,
                   progress_bar, after_sets>>
    /\ UNCHANGED <<orch_vars, gui_vars, build_vars, conv_vars, report_vars, start_vars, fo_vars>>

\* progress_tracker.increment(), first half:
\*     with self._lock: self.completed += 1; count = self.completed
TrackerIncrement(t) ==
    /\ worker[t] = "started"
    /\ tracker' = tracker + 1
    /\ held' = [held EXCEPT ![t] = tracker + 1]
    /\ worker' = [worker EXCEPT ![t] = "counted"]
    /\ UNCHANGED <<proc_total, proc_workers, proc_pc, stdout>>
    /\ UNCHANGED <<read_pos, app_total_tasks, app_completed_tasks, current_progress,
                   target_progress, task_in_progress, progress_animation_id,
                   progress_bar, after_sets>>
    /\ UNCHANGED <<orch_vars, gui_vars, build_vars, conv_vars, report_vars, start_vars, fo_vars>>

\* progress_tracker.increment(), second half, outside the lock:
\*     safe_print(f"[PROGRESS:TASK:{count}]")
TrackerPublish(t) ==
    /\ worker[t] = "counted"
    /\ stdout' = Append(stdout, <<"TASK", held[t]>>)
    /\ worker' = [worker EXCEPT ![t] = "published"]
    /\ UNCHANGED <<proc_total, proc_workers, proc_pc, tracker, held>>
    /\ UNCHANGED <<read_pos, app_total_tasks, app_completed_tasks, current_progress,
                   target_progress, task_in_progress, progress_animation_id,
                   progress_bar, after_sets>>
    /\ UNCHANGED <<orch_vars, gui_vars, build_vars, conv_vars, report_vars, start_vars, fo_vars>>

\* process_single_task returns (or raises): after the increment of the
\* conversion block and whatever follows it, or without any increment when
\* the conversion is skipped (--skip-bids) or raises.
WorkerReturn(t) ==
    /\ worker[t] \in {"started", "published"}
    /\ worker' = [worker EXCEPT ![t] = "returned"]
    /\ UNCHANGED <<proc_total, proc_workers, proc_pc, tracker, held, stdout>>
    /\ UNCHANGED <<read_pos, app_total_tasks, app_completed_tasks, current_progress,
                   target_progress, task_in_progress, progress_animation_id,
                   progress_bar, after_sets>>
    /\ UNCHANGED <<orch_vars, gui_vars, build_vars, conv_vars, report_vars, start_vars, fo_vars>>

\* safe_print("[PROGRESS:COMPLETE]") once every future is consumed
PrintComplete ==
    /\ proc_pc = "pool"
    /\ \A t \in ProgTasks : worker[t] = "returned"
    /\ stdout' = Append(stdout, <<"COMPLETE", 0>>)
    /\ proc_pc' = "complete"
    /\ UNCHANGED <<proc_total, proc_workers, worker, tracker, held>>
    /\ UNCHANGED <<read_pos, app_total_tasks, app_completed_tasks, current_progress,
                   target_progress, task_in_progress, progress_animation_id,
                   progress_bar, after_sets>>
    /\ UNCHANGED <<orch_vars, gui_vars, build_vars, conv_vars, report_vars, start_vars, fo_vars>>

\* def _animate_progress(self), as a function of the fields it reads:
\*     if not self.task_in_progress: self.progress_animation_id = None; return
\*     if self.current_progress < self.target_progress:
\*         remaining = self.target_progress - self.current_progress
\*         increment = max(0.001, remaining * 0.02)
\*         self.current_progress = min(self.target_progress, self.current_progress + increment)
\*         self.progress_bar.set(self.current_progress)
\*     self.progress_animation_id = self.after(100, self._animate_progress)
_animate_progress(in_progress, current, target, bar) ==
    IF ~in_progress
    THEN [current |-> current, bar |-> bar, id |-> FALSE]
    ELSE IF current < target
         THEN LET remaining == target - current
                  increment == Max(MinStep, remaining \div EaseDivisor)
                  moved     == Min(target, current + increment)
              IN  [current |-> moved, bar |-> moved, id |-> TRUE]
         ELSE [current |-> current, bar |-> bar, id |-> TRUE]

\* [PROGRESS:TOTAL:N]
HandleTotalMarker(marker) ==
    /\ app_total_tasks' = marker[2]
    /\ app_completed_tasks' = 0
    /\ current_progress' = 0
    /\ target_progress' = 0
    /\ UNCHANGED <<task_in_progress, progress_animation_id, progress_bar, after_sets>>

\* [PROGRESS:TASK_START:N]: the target is 95% of the way to the end of
\* task N's share, and _start_progress_animation() runs a first tick
HandleTaskStartMarker(marker) ==
    IF app_total_tasks > 0
    THEN LET task_number == marker[2]
             target == Share(100 * task_number + NearlyDone, app_total_tasks)
             tick   == _animate_progress(TRUE, current_progress, target, progress_bar)
         IN  /\ target_progress' = target
             /\ task_in_progress' = TRUE
             /\ current_progress' = tick.current
             /\ progress_bar' = tick.bar
             /\ progress_animation_id' = tick.id
             /\ UNCHANGED <<app_total_tasks, app_completed_tasks, after_sets>>
    ELSE UNCHANGED <<app_total_tasks, app_completed_tasks, current_progress,
                     target_progress, task_in_progress, progress_animation_id,
                     progress_bar, after_sets>>

\* [PROGRESS:TASK:N]: snap to completed / total
HandleTaskMarker(marker) ==
    /\ app_completed_tasks' = marker[2]
    /\ task_in_progress' = FALSE
    /\ IF app_total_tasks > 0
       THEN /\ current_progress' = Share(100 * marker[2], app_total_tasks)
            /\ target_progress' = Share(100 * marker[2], app_total_tasks)
            /\ after_sets' = Append(after_sets, Share(100 * marker[2], app_total_tasks))
       ELSE UNCHANGED <<current_progress, target_progress, after_sets>>
    /\ UNCHANGED <<app_total_tasks, progress_animation_id, progress_bar>>

\* [PROGRESS:COMPLETE]
HandleCompleteMarker ==
    /\ progress_animation_id' = FALSE
    /\ current_progress' = Unit
    /\ after_sets' = Append(after_sets, Unit)
    /\ UNCHANGED <<app_total_tasks, app_completed_tasks, target_progress,
                   task_in_progress, progress_bar>>

\* for line in self.current_process.stdout: ... self._handle_progress_marker(line)
\* The pipeline prints no STAGE and no STATUS marker, so those two
\* branches of the handler are never taken.
HandleProgressMarker ==
    /\ read_pos < Len(stdout)
    /\ read_pos' = read_pos + 1
    /\ LET marker == stdout[read_pos + 1]
       IN  CASE marker[1] = "TOTAL"      -> HandleTotalMarker(marker)
             [] marker[1] = "TASK_START" -> HandleTaskStartMarker(marker)
             [] marker[1] = "TASK"       -> HandleTaskMarker(marker)
             [] marker[1] = "COMPLETE"   -> HandleCompleteMarker
    /\ UNCHANGED <<proc_total, proc_workers, proc_pc, worker, tracker, held, stdout>>
    /\ UNCHANGED <<orch_vars, gui_vars, build_vars, conv_vars, report_vars, start_vars, fo_vars>>

\* The 100 ms timer fires: _animate_progress()
AnimateProgress ==
    /\ progress_animation_id
    /\ LET tick == _animate_progress(task_in_progress, current_progress,
                                     target_progress, progress_bar)
       IN  /\ current_progress' = tick.current
           /\ progress_bar' = tick.bar
           /\ progress_animation_id' = tick.id
    /\ UNCHANGED <<read_pos, app_total_tasks, app_completed_tasks, target_progress,
                   task_in_progress, after_sets>>
    /\ UNCHANGED <<proc_total, proc_workers, proc_pc, worker, tracker, held, stdout>>
    /\ UNCHANGED <<orch_vars, gui_vars, build_vars, conv_vars, report_vars, start_vars, fo_vars>>

\* The main loop runs a callback queued with self.after(0, ...):
\*     self.progress_bar.set(p)
RunAfterSet ==
    /\ after_sets # << >>
    /\ progress_bar' = Head(after_sets)
    /\ after_sets' = Tail(after_sets)
    /\ UNCHANGED <<read_pos, app_total_tasks, app_completed_tasks, current_progress,
                   target_progress, task_in_progress, progress_animation_id>>
    /\ UNCHANGED <<proc_total, proc_workers, proc_pc, worker, tracker, held, stdout>>
    /\ UNCHANGED <<orch_vars, gui_vars, build_vars, conv_vars, report_vars, start_vars, fo_vars>>

NextProgress ==
    \/ PrintTotal
    \/ \E t \in ProgTasks : TrackerTaskStart(t)
    \/ \E t \in ProgTasks : TrackerIncrement(t)
    \/ \E t \in ProgTasks : TrackerPublish(t)
    \/ \E t \in ProgTasks : WorkerReturn(t)
    \/ PrintComplete
    \/ HandleProgressMarker
    \/ AnimateProgress
    \/ RunAfterSet

InitProgressSpec == InitProgress /\ OrchOff /\ GuiOff /\ BuildOff /\ ConvOff /\ ReportOff /\ StartOff /\ FoOff

SpecProgress == InitProgressSpec /\ [][NextProgress]_vars

\* The reader loop has handled [PROGRESS:COMPLETE]: the run is over.
CompleteHandled == \E i \in 1..read_pos : stdout[i][1] = "COMPLETE"

\* C30: while a task is in flight (a "task starting" marker was handled, no
\* "task completed" marker since, the run not over) the progress fraction,
\* as kept and as displayed, stays at or below (completed + 0.95) / total,
\* the completed count being the one the last "task completed" marker gave.
C30_BelowTaskShare ==
    (task_in_progress /\ ~CompleteHandled) =>
        /\ current_progress * app_total_tasks
               <= (100 * app_completed_tasks + NearlyDone) * (Unit \div 100)
        /\ progress_bar * app_total_tasks
               <= (100 * app_completed_tasks + NearlyDone) * (Unit \div 100)


\* ---------------------------------------------------------------------
\* Report counts against the task list
\* ---------------------------------------------------------------------

\* The tasks the report lists as failed, whatever the stage.
FailedTasks == { t \in Tasks : \E f \in failed : f[1] = t }

\* C31: each task contributes at most one outcome to the report's counts:
\* success_count + fail_count <= total_tasks, and no task is listed both as
\* successfully converted and as failed.
C31_OneOutcomePerTask ==
    /\ Cardinality(successful) + Cardinality(failed) <= total_tasks
    /\ successful \cap FailedTasks = {}


\* The run went through the pool and printed [PROGRESS:COMPLETE], so its
\* report is generated from the lists as they stand.
RanToCompletion == \E i \in 1..Len(out) : out[i][1] = "COMPLETE"

\* C32: the report's overall status agrees with the exit code: a run that
\* went through the pool exits with 0 exactly when its report states full
\* success, in every stage configuration.
C32_ExitCodeAgreesWithReport ==
    (main_pc = "exited" /\ RanToCompletion /\ SomeStageEnabled) =>
        (exit_code = 0 <=>
            StatusBox(Cardinality(successful), Cardinality(failed)) = "SUCCESS!")


\* ---------------------------------------------------------------------
\* Task identity across subject folders
\* ---------------------------------------------------------------------

\* temp_dir = bids_path / "tmp_dcm2niix" / f"sub-{sub_id}_ses-{ses_id}"
TempDirOf(task) == <<task.sub_id, task.ses_id>>

\* C33: no two tasks of one run have the same (subject_id, session_id)
\* pair, hence no two conversions share a temporary directory, for every
\* set of subject folder names the scan of the input folder meets.
C33_TaskPairsDistinct ==
    args.subject = << >> =>
        \A i \in 1..Len(tasks) : \A j \in 1..Len(tasks) :
            i # j => TempDirOf(tasks[i]) # TempDirOf(tasks[j])


\* ---------------------------------------------------------------------
\* Output file names of one session's conversion
\* ---------------------------------------------------------------------

\* out_dir / bids_name: the datatype folder and
\* sub-<id>_ses-<id>[_<entities>]_<suffix>; the subject and session are
\* the same for every scan of the session.
OutName(o) == <<o.datatype, o.entities, o.suffix>>

\* The .nii.gz/.json pairs present in the output after the copies made.
OutputPairs == { OutName(organized[i]) : i \in 1..Len(organized) }

\* C34: within one session's conversion distinct converted scans are
\* written to distinct output names, and the organized count returned is
\* the number of distinct output file pairs present afterwards.
C34_DistinctOutputNames ==
    /\ \A i \in 1..Len(organized) : \A j \in 1..Len(organized) :
           i # j => OutName(organized[i]) # OutName(organized[j])
    /\ conv_pc = "returned" => Len(organized) = Cardinality(OutputPairs)


\* ---------------------------------------------------------------------
\* Termination of a run
\* ---------------------------------------------------------------------

\* One step of the worker thread that runs task t.
TaskStep(t) ==
    \/ TaskStart(t)
    \/ BidsConversion(t)
    \/ DescIsSet(t)
    \/ DescExists(t)
    \/ DescWrite(t)
    \/ DescSet(t)
    \/ Increment(t)
    \/ Publish(t)
    \/ FmriprepStart(t)
    \/ FmriprepEnd(t)

\* One step of the main thread.
MainStep ==
    \/ \E t \in Tasks : Collect(t)
    \/ ProgressComplete
    \/ ValidateArgsExit
    \/ NoTasksExit
    \/ SaveReport
    \/ SysExit

\* Fair scheduling of the pool threads and of the main thread; a step that
\* waits for dcm2niix or fMRIPrep is taken once the collaborator returns or
\* times out.
Fairness ==
    /\ \A t \in 1..MaxTasks : WF_vars(t \in Tasks /\ TaskStep(t))
    /\ WF_vars(MainStep)

SpecLive == Init /\ [][Next]_vars /\ Fairness

CompleteMarkers == { i \in 1..Len(out) : out[i][1] = "COMPLETE" }

\* C35: every run that submits its tasks terminates: all tasks finish and
\* the process exits, and [PROGRESS:COMPLETE] is emitted exactly once, as
\* the last marker, after every task has finished.
C35_RunTerminates ==
    /\ (main_pc = "pool") ~> (main_pc = "exited" /\ RanToCompletion)
    /\ [](RanToCompletion =>
            /\ Cardinality(CompleteMarkers) = 1
            /\ out[Len(out)][1] = "COMPLETE"
            /\ \A t \in Tasks : pc[t] = "done")

C35_Witness ==
    /\ main_pc = "exited"
    /\ RanToCompletion
    /\ total_tasks = MaxTasks
    /\ \E i \in 1..Len(out) : out[i][1] = "TASK"


\* ---------------------------------------------------------------------
\* A second run started from the GUI after a cancelled one
\* ---------------------------------------------------------------------

MaxRestartRuns == 2

\* App as constructed, with room for a run after the first one.
InitGuiRestart ==
    /\ IS_WINDOWS \in BOOLEAN
    /\ is_running = FALSE
    /\ stop_requested = FALSE
    /\ current_process = 0
    /\ current_output_folder = 0
    /\ buttons = "normal"
    /\ btn_stop = "normal"
    /\ dialog_open = FALSE
    /\ stop_declined = FALSE
    /\ label_status = "Ready"
    /\ after_queue = << >>
    /\ gui_total_tasks = 0
    /\ completed_tasks = 0
    /\ run_no = 0
    /\ reader = [pc |-> "none", run |-> 0, run_fmriprep |-> FALSE]
    /\ pipeline = [r \in 1..MaxRestartRuns |-> NoPipeline]
    /\ cleanup = [r \in 1..MaxRestartRuns |-> NoCleanup]
    /\ disk = {}

\* The GUI with pipelines that are stopped, or exit, before their first
\* task starts: the steps of the GUI, of the cleanup thread, and of the
\* pipeline up to its scan of the input folder.
NextGuiRestart ==
    \/ \E full \in BOOLEAN : StartPipeline(full)
    \/ RequestStop
    \/ \E result \in BOOLEAN : ConfirmStop(result)
    \/ TkAfter
    \/ Popen
    \/ ReadLine
    \/ ReadEOF
    \/ PerformStop
    \/ WaitAndReport
    \/ \E r \in DOMAIN pipeline : PlMkdir(r)
    \/ \E r \in DOMAIN pipeline : PlPrintFolder(r)
    \/ \E r \in DOMAIN pipeline : PlScan(r)
    \/ \E r \in DOMAIN pipeline : PlExit(r)
    \/ \E r \in DOMAIN pipeline : Terminate(r)
    \/ \E r \in DOMAIN pipeline : WaitOrKill(r)
    \/ \E r \in DOMAIN pipeline : NothingToDelete(r)
    \/ \E r \in DOMAIN pipeline : Rmtree(r)

InitGuiRestartSpec == InitGuiRestart /\ OrchOff /\ BuildOff /\ LibOff

SpecGuiRestart == InitGuiRestartSpec /\ [][NextGuiRestart]_vars

\* C36: at most one pipeline subprocess started by the GUI is alive at any
\* time, also after a cancelled run whose background cleanup is pending.
C36_OnePipelineAlive ==
    Cardinality({ r \in DOMAIN pipeline : MainAlive(r) }) <= 1


\* =====================================================================
\* App start paths (src/src/gui/app.py): the three action buttons, the
\* Docker pre-flight, _start_pipeline_internal, run_subprocess, _reset_ui
\* =====================================================================

MaxClicks == 3

InitStart == StartOff

\* def _start_pipeline_internal(self, mode_label), called with the flags as
\* the caller has just set them:
\*     if self._fmriprep_only_mode: bids_folder = self._bids_folder_for_fmriprep
\*     else:
\*         if not self._validate_paths(): return
\*         bids_folder = None
\*     self.is_running = True; self._set_buttons_state("disabled")
\*     threading.Thread(target=self.run_subprocess,
\*                      args=(input_dir, output_dir, bids_folder)).start()
_start_pipeline_internal(only_mode, folder, paths_valid, by) ==
    IF ~only_mode /\ ~paths_valid
    THEN UNCHANGED <<app_is_running, app_buttons, subprocess_thread>>
    ELSE /\ app_is_running' = TRUE
         /\ app_buttons' = "disabled"
         /\ subprocess_thread' =
               [pc |-> "started",
                bids_folder |-> IF only_mode THEN folder ELSE "None",
                by |-> by]

\* def run_bids_only(self): the flags, then _start_pipeline_internal
RunBidsOnly ==
    /\ app_buttons = "normal"
    /\ clicks < MaxClicks
    /\ clicks' = clicks + 1
    /\ clicked' = "bids_only"
    /\ _run_bids' = TRUE
    /\ _run_fmriprep' = FALSE
    /\ \E paths_valid \in BOOLEAN :
          _start_pipeline_internal(_fmriprep_only_mode, _bids_folder_for_fmriprep,
                                   paths_valid, "bids_only")
    /\ UNCHANGED <<_fmriprep_only_mode, _bids_folder_for_fmriprep, preflight_thread,
                   after_start, cmd, reset_pending>>
    /\ UNCHANGED <<orch_vars, gui_vars, build_vars, conv_vars, report_vars,
                   prog_vars, fo_vars>>

\* def run_full_pipeline(self): return when the fMRIPrep options do not
\* validate; else the flags and _run_with_docker_preflight, which disables
\* the buttons and starts preflight_thread
RunFullPipeline ==
    /\ app_buttons = "normal"
    /\ clicks < MaxClicks
    /\ clicks' = clicks + 1
    /\ clicked' = "full"
    /\ \E options_valid \in BOOLEAN :
          IF ~options_valid
          THEN UNCHANGED <<_run_bids, _run_fmriprep, _fmriprep_only_mode,
                           app_buttons, preflight_thread>>
          ELSE /\ _run_bids' = TRUE
               /\ _run_fmriprep' = TRUE
               /\ _fmriprep_only_mode' = FALSE
               /\ app_buttons' = "disabled"
               /\ preflight_thread' = "running"
    /\ UNCHANGED <<app_is_running, _bids_folder_for_fmriprep, after_start,
                   subprocess_thread, cmd, reset_pending>>
    /\ UNCHANGED <<orch_vars, gui_vars, build_vars, conv_vars, report_vars,
                   prog_vars, fo_vars>>

\* def run_fmriprep_only(self): return when the options or the BIDS folder
\* do not validate; else the flags, the folder and the pre-flight
RunFmriprepOnly ==
    /\ app_buttons = "normal"
    /\ clicks < MaxClicks
    /\ clicks' = clicks + 1
    /\ clicked' = "fmriprep_only"
    /\ \E folder_valid \in BOOLEAN :
          IF ~folder_valid
          THEN UNCHANGED <<_run_bids, _run_fmriprep, _fmriprep_only_mode,
                           _bids_folder_for_fmriprep, app_buttons, preflight_thread>>
          ELSE /\ _run_bids' = FALSE
               /\ _run_fmriprep' = TRUE
               /\ _fmriprep_only_mode' = TRUE
               /\ _bids_folder_for_fmriprep' = "bids_folder"
               /\ app_buttons' = "disabled"
               /\ preflight_thread' = "running"
    /\ UNCHANGED <<app_is_running, after_start, subprocess_thread, cmd, reset_pending>>
    /\ UNCHANGED <<orch_vars, gui_vars, build_vars, conv_vars, report_vars,
                   prog_vars, fo_vars>>

\* preflight_thread ends: on success after(100, _start_pipeline_internal);
\* on failure or exception self._set_buttons_state("normal")
PreflightEnd ==
    /\ preflight_thread = "running"
    /\ preflight_thread' = "none"
    /\ \E outcome \in {"success", "failed", "exception"} :
          IF outcome = "success"
          THEN /\ after_start' = TRUE
               /\ UNCHANGED app_buttons
          ELSE /\ app_buttons' = "normal"
               /\ UNCHANGED after_start
    /\ UNCHANGED <<app_is_running, _run_bids, _run_fmriprep, _fmriprep_only_mode,
                   _bids_folder_for_fmriprep, subprocess_thread, cmd, reset_pending,
                   clicked, clicks>>
    /\ UNCHANGED <<orch_vars, gui_vars, build_vars, conv_vars, report_vars,
                   prog_vars, fo_vars>>

\* The Tk main loop runs the callback queued by the pre-flight:
\*     self._start_pipeline_internal(mode_label)
AfterStart ==
    /\ after_start
    /\ after_start' = FALSE
    /\ \E paths_valid \in BOOLEAN :
          _start_pipeline_internal(_fmriprep_only_mode, _bids_folder_for_fmriprep,
                                   paths_valid, clicked)
    /\ UNCHANGED <<_run_bids, _run_fmriprep, _fmriprep_only_mode,
                   _bids_folder_for_fmriprep, preflight_thread, cmd, reset_pending,
                   clicked, clicks>>
    /\ UNCHANGED <<orch_vars, gui_vars, build_vars, conv_vars, report_vars,
                   prog_vars, fo_vars>>

\* def run_subprocess(self, input_dir, output_dir, bids_folder), up to Popen:
\*     if self._fmriprep_only_mode and bids_folder: cmd = [.., "--bids-folder", bids_folder]
\*     else: cmd = [.., "--input", input_dir, "--output_dir", output_dir]
\*     if not self._run_bids: cmd.append("--skip-bids")
\*     if not self._run_fmriprep: cmd.append("--skip-fmriprep")
RunSubprocessStart ==
    /\ subprocess_thread.pc = "started"
    /\ cmd' = [form |-> IF _fmriprep_only_mode /\ subprocess_thread.bids_folder # "None"
                        THEN "--bids-folder"
                        ELSE "--input --output_dir",
               skip_bids |-> ~_run_bids,
               skip_fmriprep |-> ~_run_fmriprep]
    /\ subprocess_thread' = [subprocess_thread EXCEPT !.pc = "reading"]
    /\ UNCHANGED <<app_buttons, app_is_running, _run_bids, _run_fmriprep,
                   _fmriprep_only_mode, _bids_folder_for_fmriprep, preflight_thread,
                   after_start, reset_pending, clicked, clicks>>
    /\ UNCHANGED <<orch_vars, gui_vars, build_vars, conv_vars, report_vars,
                   prog_vars, fo_vars>>

\* run_subprocess after the process has ended (or the try block raised):
\*     self.current_process = None; self.after(0, self._reset_ui)
RunSubprocessEnd ==
    /\ subprocess_thread.pc = "reading"
    /\ subprocess_thread' = [subprocess_thread EXCEPT !.pc = "ended"]
    /\ reset_pending' = TRUE
    /\ UNCHANGED <<app_buttons, app_is_running, _run_bids, _run_fmriprep,
                   _fmriprep_only_mode, _bids_folder_for_fmriprep, preflight_thread,
                   after_start, cmd, clicked, clicks>>
    /\ UNCHANGED <<orch_vars, gui_vars, build_vars, conv_vars, report_vars,
                   prog_vars, fo_vars>>

\* def _reset_ui(self): is_running = False ... _set_buttons_state("normal")
ResetUi ==
    /\ reset_pending
    /\ reset_pending' = FALSE
    /\ app_is_running' = FALSE
    /\ app_buttons' = "normal"
    /\ UNCHANGED <<_run_bids, _run_fmriprep, _fmriprep_only_mode,
                   _bids_folder_for_fmriprep, preflight_thread, after_start,
                   subprocess_thread, cmd, clicked, clicks>>
    /\ UNCHANGED <<orch_vars, gui_vars, build_vars, conv_vars, report_vars,
                   prog_vars, fo_vars>>

NextStart ==
    \/ RunBidsOnly
    \/ RunFullPipeline
    \/ RunFmriprepOnly
    \/ PreflightEnd
    \/ AfterStart
    \/ RunSubprocessStart
    \/ RunSubprocessEnd
    \/ ResetUi

InitStartSpec ==
    InitStart /\ OrchOff /\ GuiOff /\ BuildOff /\ ConvOff /\ ReportOff /\ ProgOff /\ FoOff

SpecStart == InitStartSpec /\ [][NextStart]_vars

\* A pre-flight check or a run is in progress, or its end is being handled.
StartBusy ==
    \/ preflight_thread = "running"
    \/ after_start
    \/ subprocess_thread.pc \in {"started", "reading"}
    \/ reset_pending

\* C37: the action buttons are disabled only while a pre-flight check or a
\* run is in progress: the GUI is never left with its buttons disabled and
\* nothing running that would re-enable them.
C37_ButtonsDisabledOnlyWhileBusy == app_buttons = "disabled" => StartBusy

\* C38: whatever was done before, the command line of a run started with
\* 'Run BIDS Conversion' has --input/--output_dir, not --bids-folder, and
\* does not skip the conversion.
C38_BidsOnlyCommand ==
    (subprocess_thread.by = "bids_only" /\ subprocess_thread.pc \in {"reading", "ended"}) =>
        /\ cmd.form = "--input --output_dir"
        /\ ~cmd.skip_bids


\* ---------------------------------------------------------------------
\* Displayed progress over a run
\* ---------------------------------------------------------------------

TotalHandled == \E i \in 1..read_pos : stdout[i][1] = "TOTAL"

\* C39: once the TOTAL marker has been handled, no step of the run makes
\* the displayed progress (the bar, and the value kept behind it) smaller,
\* in whatever order the markers of parallel tasks arrive.
C39_ProgressNeverDecreases ==
    [][TotalHandled => (progress_bar' >= progress_bar /\ current_progress' >= current_progress)]_vars


\* =====================================================================
\* main() with --bids-folder (src/src/orchestrator.py): an existing BIDS
\* dataset is preprocessed in place
\* =====================================================================

\* A file (or folder) of the dataset: its path, the subject folder it is
\* under ("" at the top level), the number of newlines it holds, and
\* whether it was there before the run ("pre") or written by it ("run").
File(name, sub, newlines) ==
    [name |-> name, sub |-> sub, newlines |-> newlines, origin |-> "pre"]

F_desc      == File("dataset_description.json", "", 5)
F_bidsignore == File(".bidsignore", "", 1)
F_tmp       == File("tmp_dcm2niix", "", 0)
F_deriv     == File("derivatives", "", 0)
F_report    == File("conversion_report.txt", "", 9)
F_t1w       == File("sub-01/anat/sub-01_T1w.nii.gz", "sub-01", 0)
F_scans1    == File("sub-01/sub-01_scans.tsv", "sub-01", 1)
F_scans2    == File("sub-02/sub-02_scans.tsv", "sub-02", 3)

DatasetFiles ==
    {F_desc, F_bidsignore, F_tmp, F_deriv, F_report, F_t1w, F_scans1, F_scans2}

Written(f) == [f EXCEPT !.origin = "run"]

\* open(path, 'w') / a tool writing path: whatever was at that path is replaced
WriteFile(files, f) == { g \in files : g.name # f.name } \cup {Written(f)}

\* for sub_dir in sorted(bids_dir.iterdir()): ... startswith("sub-")
SubDirs(files) == { f.sub : f \in files } \ {""}

InitFo ==
    /\ fo_args \in [keep_temp : BOOLEAN, skip_bids : BOOLEAN, skip_fmriprep : BOOLEAN]
    /\ existing_files \in SUBSET DatasetFiles
    /\ bids_dir_files = existing_files
    /\ conversion_invoked = FALSE
    /\ fo_pc = [at |-> "start", todo |-> {}]

\* if not (bids_folder_path / "dataset_description.json").exists(): sys.exit(1)
\* args.skip_bids = True
FoValidateArgs ==
    /\ fo_pc.at = "start"
    /\ IF \E f \in bids_dir_files : f.name = "dataset_description.json"
       THEN /\ fo_args' = [fo_args EXCEPT !.skip_bids = TRUE]
            /\ fo_pc' = [fo_pc EXCEPT !.at = "scan"]
       ELSE /\ fo_pc' = [fo_pc EXCEPT !.at = "exited"]
            /\ UNCHANGED fo_args
    /\ UNCHANGED <<existing_files, bids_dir_files, conversion_invoked>>
    /\ UNCHANGED <<orch_vars, gui_vars, build_vars, conv_vars, report_vars,
                   prog_vars, start_vars>>

\* the task list from the sub-* folders; if not tasks: sys.exit(0)
FoScan ==
    /\ fo_pc.at = "scan"
    /\ fo_pc' = IF SubDirs(bids_dir_files) = {}
                THEN [at |-> "exited", todo |-> {}]
                ELSE [at |-> "pool", todo |-> SubDirs(bids_dir_files)]
    /\ UNCHANGED <<fo_args, existing_files, bids_dir_files, conversion_invoked>>
    /\ UNCHANGED <<orch_vars, gui_vars, build_vars, conv_vars, report_vars,
                   prog_vars, start_vars>>

\* process_single_task for the tasks of one subject folder:
\*     if not skip_bids: run_bids_conversion(...); create_dataset_description(bids_dir)
\*     if not skip_fmriprep: the runner writes under derivatives_dir
FoTask(s) ==
    /\ fo_pc.at = "pool"
    /\ s \in fo_pc.todo
    /\ fo_pc' = [fo_pc EXCEPT !.todo = @ \ {s}]
    /\ conversion_invoked' = (conversion_invoked \/ ~fo_args.skip_bids)
    /\ \E fmriprep_wrote \in BOOLEAN :
          LET after_bids == IF ~fo_args.skip_bids
                            THEN WriteFile(bids_dir_files, F_desc)
                            ELSE bids_dir_files
          IN  bids_dir_files' =
                 IF ~fo_args.skip_fmriprep /\ fmriprep_wrote
                 THEN WriteFile(after_bids, F_deriv)
                 ELSE after_bids
    /\ UNCHANGED <<fo_args, existing_files>>
    /\ UNCHANGED <<orch_vars, gui_vars, build_vars, conv_vars, report_vars,
                   prog_vars, start_vars>>

\* def cleanup_temp_files(bids_dir, report): rmtree of tmp_dcm2niix, unlink
\* of .bidsignore, unlink of every *_scans.tsv with at most one newline;
\* each removal may raise and is then skipped
cleanup_temp_files(files, rmtree_ok, unlink_ok, scans_ok) ==
    { f \in files :
        /\ ~(f.name = "tmp_dcm2niix" /\ rmtree_ok)
        /\ ~(f.name = ".bidsignore" /\ unlink_ok)
        /\ ~(f \in {F_scans1, F_scans2} /\ f.newlines <= 1 /\ scans_ok) }

\* if args.keep_temp: ... else: cleanup_temp_files(bids_dir, report)
FoCleanup ==
    /\ fo_pc = [at |-> "pool", todo |-> {}]
    /\ fo_pc' = [fo_pc EXCEPT !.at = "report"]
    /\ IF fo_args.keep_temp
       THEN UNCHANGED bids_dir_files
       ELSE \E rmtree_ok, unlink_ok, scans_ok \in BOOLEAN :
               bids_dir_files' =
                   cleanup_temp_files(bids_dir_files, rmtree_ok, unlink_ok, scans_ok)
    /\ UNCHANGED <<fo_args, existing_files, conversion_invoked>>
    /\ UNCHANGED <<orch_vars, gui_vars, build_vars, conv_vars, report_vars,
                   prog_vars, start_vars>>

\* with open(output_folder / "conversion_report.txt", 'w'): ...; sys.exit
FoSaveReport ==
    /\ fo_pc.at = "report"
    /\ fo_pc' = [fo_pc EXCEPT !.at = "exited"]
    /\ \E saved \in BOOLEAN :
          bids_dir_files' = IF saved THEN WriteFile(bids_dir_files, F_report)
                            ELSE bids_dir_files
    /\ UNCHANGED <<fo_args, existing_files, conversion_invoked>>
    /\ UNCHANGED <<orch_vars, gui_vars, build_vars, conv_vars, report_vars,
                   prog_vars, start_vars>>

NextFo ==
    \/ FoValidateArgs
    \/ FoScan
    \/ \E s \in SubDirs(DatasetFiles) : FoTask(s)
    \/ FoCleanup
    \/ FoSaveReport

InitFoSpec ==
    InitFo /\ OrchOff /\ GuiOff /\ BuildOff /\ ConvOff /\ ReportOff /\ ProgOff /\ StartOff

SpecFo == InitFoSpec /\ [][NextFo]_vars

\* The files of the dataset other than the derivatives folder and the report.
Protected(files) ==
    { f \in files : f.name \notin {"derivatives", "conversion_report.txt"} }

\* C40: in a --bids-folder run conversion is never invoked, and every file
\* the dataset held before the run, other than the derivatives folder and
\* the report, is still there with its content (the descriptor included).
C40_DatasetUnchanged ==
    /\ ~conversion_invoked
    /\ Protected(existing_files) \subseteq bids_dir_files

====
